---- MODULE Spec2Model ----
(***************************************************************************)
(* Model of the Hue-bridge adapter's correlation core:                     *)
(*   CommandQueue (utils/queue.ts): the registry of pending commands, the  *)
(*   deadline timers, the transport writes and the 'rxMsg' event sink;     *)
(*   HueBridgeAdapter: sendZclFrameToEndpoint's ack / confirm / indication *)
(*   exchange, waitFor and its waitress, and processMessages, the listener *)
(*   of 'rxMsg'.                                                           *)
(*                                                                         *)
(* JavaScript runs every handler to completion, so each handler (execute,  *)
(* the parser's 'data' handler, a timer callback, the write callback,      *)
(* clear) is one atomic action.  resolve/reject of a promise are recorded  *)
(* as calls, in order: the promise takes the outcome of the first call and *)
(* ignores the later ones.                                                 *)
(***************************************************************************)
EXTENDS Integers, Sequences, FiniteSets, TLC

\* ---------------------------------------------------------------- bounds
MaxCmds   == 2     \* execute() calls in one run
MaxMsgs   == 2     \* lines delivered by the parser in one run
MaxClears == 1     \* clear() calls in one run
MaxExch   == 2     \* sendZclFrameToEndpoint() calls in one run of the adapter
MaxSeqEvents == 4      \* execute(), nextSequence() and clear() calls and lines
                       \* handled, taken together, in a run of the counter
MaxZdoExch == 1    \* sendZclFrameToEndpoint() calls in one run of sendZdo
MaxZdoEvents == 4  \* in one run of sendZdo: the calls, the lines delivered, the
                   \* timers that fire and the write callbacks, taken together
MaxLiveEvents == 4 \* in one run of the adapter to its end: its calls, the lines
                   \* delivered and the writes that fail, taken together
MaxEvents == 5     \* in one run of the adapter: its calls, the lines delivered,
                   \* the timers that fire and the writes that fail, taken together

\* ------------------------------------------------------ program constants
DEFAULT_TIMEOUT == 5000

\* ------------------------------------------------------------- messages
\* A ParsedMessage, reduced to the fields the matchers of the adapter read.
Msg(t, s, st) == [type |-> t, sequence |-> s, status |-> st]

NoMsg == Msg("", 0, 0)

Messages ==
    { Msg("zclReq", 1, 0), Msg("unknown", 0, 0) }

\* ------------------------------------------------------------- matchers
\* The closures the adapter passes to execute():
\*   () => true, () => false, (msg) => msg.type === T,
\*   (msg) => msg.type === 'zclConf' && msg.sequence === txSequence
AnyMatcher      == [kind |-> "any",   type |-> "",        sequence |-> 0]
NeverMatcher    == [kind |-> "never", type |-> "",        sequence |-> 0]
TypeMatcher(t)  == [kind |-> "type",  type |-> t,         sequence |-> 0]
ConfMatcher(s)  == [kind |-> "conf",  type |-> "zclConf", sequence |-> s]

Matches(matcher, msg) ==
    CASE matcher.kind = "any"   -> TRUE
      [] matcher.kind = "never" -> FALSE
      [] matcher.kind = "type"  -> msg.type = matcher.type
      [] matcher.kind = "conf"  -> msg.type = "zclConf" /\ msg.sequence = matcher.sequence

MatcherChoices == { AnyMatcher, TypeMatcher("zclReq") }
CommandChoices == { "", "cmd" }       \* '' is the confirm phase's empty command
TimeoutChoices == { DEFAULT_TIMEOUT }

\* ---------------------------------------------------------------- state
VARIABLES
    pending,      \* Map<string, PendingCommand>, in insertion order
    exec,         \* per execute() call: the closure's id, command, matcher, timeoutMs
    issued,       \* number of execute() calls made so far
    timers,       \* armed deadline timers, named by the call that armed them
    writes,       \* per call: its port.write callback: "inflight" until it is called,
                  \* "ok" or "failed" once called, "none" when nothing was written
    settlements,  \* per call: the resolve/reject calls made on its promise, in order
    rx,           \* the lines handled so far: their number, and of the last one the
                  \* message, the call that consumed it (0: none) and the calls
                  \* that were registered when it arrived
    emitted,      \* messages emitted as 'rxMsg'
    clears,       \* number of clear() calls made so far
    waitress,     \* the adapter's waitress: its waiters, in insertion order
    wtimers,      \* armed waiter timers, named by the waiter's ID
    wsettle,      \* per waiter ID: the resolve/reject calls made on its promise
    xch,          \* per sendZclFrameToEndpoint() call: where the async function
                  \* is suspended, its waiter, the execute() call it awaits, the
                  \* ack it consumed and what it returned or threw
    micro,        \* the microtask queue: the exchanges whose awaited promise has
                  \* settled and whose continuation has not run yet, oldest first
    published,    \* payloads emitted as 'zclPayload'
    sequenceNumber, \* the CommandQueue's sequence counter
    feed,         \* the lines the parser's 'data' handler is still to deliver
    decoded,      \* the lines handed to MessageParser.parse so far, each with
                  \* what the call returned
    zdo           \* the sendZdo() calls made so far: the cluster, disableResponse,
                  \* the execute() call the function awaits (0: none) and the
                  \* port.write callback of a command sent without execute()

\* the CommandQueue's state, the adapter's state
qvars == <<pending, exec, issued, timers, writes, settlements, rx, emitted, clears>>
avars == <<waitress, wtimers, wsettle, xch, micro, published>>

\* the caller of the decoder
dvars == <<feed, decoded>>

vars == <<pending, exec, issued, timers, writes, settlements, rx, emitted, clears,
          waitress, wtimers, wsettle, xch, micro, published,
          sequenceNumber, feed, decoded, zdo>>

Calls == 1..MaxCmds

\* the sendZclFrameToEndpoint() calls of a run, and the execute() calls they make
Exchanges == 1..MaxExch
ExchCalls == 1..(2 * MaxExch)

NoExec == [id |-> 0, command |-> "", matcher |-> NeverMatcher, timeoutMs |-> 0]

NoRx == [n |-> 0, msg |-> NoMsg, by |-> 0, offered |-> << >>]

\* ------------------------------------------- the adapter's messages
\* Zcl.Foundation.defaultRsp.ID, and the response id of the command sent
DefaultRspId == 11
ResponseId   == 1

\* a 'zclInd' line: its source, its cluster and the ZCL header of its payload
ZclInd(address, endpoint, clusterId, tsn, commandIdentifier) ==
    [type |-> "zclInd", sequence |-> 0, status |-> 0,
     source |-> [address |-> address, endpoint |-> endpoint],
     clusterId |-> clusterId,
     header |-> [transactionSequenceNumber |-> tsn,
                 commandIdentifier |-> commandIdentifier]]

\* the ZclPayload processMessages builds from a 'zclInd' message
ZclPayload(msg) ==
    [clusterID |-> msg.clusterId, address |-> msg.source.address,
     endpoint |-> msg.source.endpoint, header |-> msg.header]

NoPayload ==
    [clusterID |-> 0, address |-> 0, endpoint |-> 0,
     header |-> [transactionSequenceNumber |-> 0, commandIdentifier |-> 0]]

\* the device, endpoint and cluster the exchanges of a run address
Device   == 3
Endpoint == 1
Cluster  == 6

\* The lines the bridge sends in a run of the adapter: an ack carrying a
\* sequence, confirms of that sequence with zero and non-zero status, a
\* confirm of another sequence, the indication answering the first frame.
ExchMessages ==
    { Msg("zclReq", 1, 0),
      Msg("zclConf", 1, 0), Msg("zclConf", 1, 1), Msg("zclConf", 2, 0),
      ZclInd(Device, Endpoint, Cluster, 1, ResponseId) }

\* the matcher waitFor hands to the waitress
WaitMatcher(address, endpoint, tsn, clusterID, commandIdentifier) ==
    [address |-> address, endpoint |-> endpoint, clusterID |-> clusterID,
     commandIdentifier |-> commandIdentifier, transactionSequenceNumber |-> tsn]

\* waitressValidator(payload, matcher); a payload of the model has a header,
\* and the matchers of sendZclFrameToEndpoint have a transactionSequenceNumber
WaitressValidator(payload, matcher) ==
    /\ (matcher.address = 0 \/ payload.address = matcher.address)
    /\ payload.endpoint = matcher.endpoint
    /\ payload.header.transactionSequenceNumber = matcher.transactionSequenceNumber
    /\ payload.clusterID = matcher.clusterID
    /\ matcher.commandIdentifier = payload.header.commandIdentifier

\* what an exchange returned or threw
NoOut         == [kind |-> "none",     payload |-> NoPayload, error |-> "",  status |-> 0]
Returned(v)   == [kind |-> "returned", payload |-> v,         error |-> "",  status |-> 0]
Undefined     == [kind |-> "undefined", payload |-> NoPayload, error |-> "", status |-> 0]
Threw(e, st)  == [kind |-> "threw",    payload |-> NoPayload, error |-> e,   status |-> st]

\* a sendZclFrameToEndpoint() call not made yet
\* command.response === undefined
NoResponse == -1

\* a sendZclFrameToEndpoint() call not made yet
NoExch ==
    [pc |-> "idle", waiter |-> 0, waiterAt |-> 0, commandIdentifier |-> NoResponse,
     timeout |-> 0, ackCall |-> 0, confCall |-> 0, out |-> NoOut]

\* the timeout the callers of a run pass to sendZclFrameToEndpoint
ExchTimeouts == { 10000 }

\* zclFrame.header.transactionSequenceNumber of the x-th frame: the caller
\* numbers its frames, so outstanding exchanges carry different numbers
Tsn(x) == x

\* ------------------------------------------------------ Map operations
\* index of the entry with key id, 0 when absent
KeyIndex(p, id) ==
    IF \E i \in 1..Len(p) : p[i].id = id
    THEN CHOOSE i \in 1..Len(p) : p[i].id = id
    ELSE 0

\* Map.set: a new key is appended, an existing key keeps its position
MapSet(p, entry) ==
    IF KeyIndex(p, entry.id) = 0
    THEN Append(p, entry)
    ELSE [p EXCEPT ![KeyIndex(p, entry.id)] = entry]

\* Map.delete
MapDelete(p, id) ==
    SelectSeq(p, LAMBDA e : e.id # id)

\* clearTimeout
ClearTimeout(ts, t) == ts \ {t}

\* resolve(value) / reject(error) of call c's promise
Settle(s, c, outcome) == [s EXCEPT ![c] = Append(@, outcome)]

\* the values passed to resolve and reject
Resolved(m)       == [kind |-> "resolved",    msg |-> m,     command |-> "",  timeoutMs |-> 0]
\* (variant: the timeout error quotes the default timeout, not the call's)
TimedOutDefault(cmd, ms) ==
    [kind |-> "timeout", msg |-> NoMsg, command |-> cmd, timeoutMs |-> DEFAULT_TIMEOUT]

TimedOut(cmd, ms) == [kind |-> "timeout",     msg |-> NoMsg, command |-> cmd, timeoutMs |-> ms]
Cleared           == [kind |-> "cleared",     msg |-> NoMsg, command |-> "",  timeoutMs |-> 0]
WriteFailed       == [kind |-> "writeFailed", msg |-> NoMsg, command |-> "",  timeoutMs |-> 0]

\* ----------------------------------------------------------------- Init
\* new CommandQueue(port, parser): an empty map, no call made yet
QueueInit(calls) ==
    /\ pending = << >>
    /\ exec = [c \in calls |-> NoExec]
    /\ issued = 0
    /\ timers = {}
    /\ writes = [c \in calls |-> "none"]
    /\ settlements = [c \in calls |-> << >>]
    /\ rx = NoRx
    /\ emitted = << >>
    /\ clears = 0
    /\ sequenceNumber = 0

\* new HueBridgeAdapter(...): a waitress without waiters, no exchange begun
AdapterInit ==
    /\ waitress = << >>
    /\ wtimers = {}
    /\ wsettle = [w \in Exchanges |-> << >>]
    /\ xch = [x \in Exchanges |-> NoExch]
    /\ micro = << >>
    /\ published = << >>

\* no line has arrived and none is to come
DecoderIdle ==
    /\ feed = << >>
    /\ decoded = << >>

\* sendZdo has not been called
ZdoIdle == zdo = << >>

Init == QueueInit(Calls) /\ AdapterInit /\ DecoderIdle /\ ZdoIdle

\* -------------------------------------------------------------- execute
\* (variant: the key is the clock reading alone, and the calls fall in one tick)
NewIdClock(n) == 1

\* `${Date.now()}-${Math.random()}`: a key no earlier call used
NewId(n) == n + 1

\* (variant: execute arms no deadline timer)
ExecuteNoTimer(command, matcher, timeoutMs) ==
    /\ issued < MaxCmds
    /\ LET c  == issued + 1
           id == NewId(issued)
       IN /\ issued' = c
          /\ exec' = [exec EXCEPT ![c] = [id |-> id, command |-> command,
                                          matcher |-> matcher, timeoutMs |-> timeoutMs]]
          /\ pending' = MapSet(pending, [id |-> id, c |-> c, matcher |-> matcher,
                                         timeout |-> c, command |-> command])
          /\ writes' = [writes EXCEPT ![c] = IF command # "" THEN "inflight" ELSE "none"]
    /\ UNCHANGED <<timers, settlements, rx, emitted, clears>>

\* (variant: the call arms no deadline timer)
QueueExecuteNoTimer(command, matcher, timeoutMs) ==
    /\ LET c  == issued + 1
           id == NewId(issued)
       IN /\ issued' = c
          /\ exec' = [exec EXCEPT ![c] = [id |-> id, command |-> command,
                                          matcher |-> matcher, timeoutMs |-> timeoutMs]]
          /\ pending' = MapSet(pending, [id |-> id, c |-> c, matcher |-> matcher,
                                         timeout |-> c, command |-> command])
          /\ writes' = [writes EXCEPT ![c] = IF command # "" THEN "inflight" ELSE "none"]
    /\ UNCHANGED <<timers, settlements, rx, emitted, clears>>

\* (variant: the command is written whether or not it is empty)
QueueExecuteAlwaysWrite(command, matcher, timeoutMs) ==
    /\ LET c  == issued + 1
           id == NewId(issued)
       IN /\ issued' = c
          /\ exec' = [exec EXCEPT ![c] = [id |-> id, command |-> command,
                                          matcher |-> matcher, timeoutMs |-> timeoutMs]]
          /\ timers' = timers \cup {c}
          /\ pending' = MapSet(pending, [id |-> id, c |-> c, matcher |-> matcher,
                                         timeout |-> c, command |-> command])
          /\ writes' = [writes EXCEPT ![c] = "inflight"]
    /\ UNCHANGED <<settlements, rx, emitted, clears>>

\* queue.execute(command, matcher, timeoutMs): the synchronous part of the call
QueueExecute(command, matcher, timeoutMs) ==
    /\ LET c  == issued + 1
           id == NewId(issued)
       IN /\ issued' = c
          /\ exec' = [exec EXCEPT ![c] = [id |-> id, command |-> command,
                                          matcher |-> matcher, timeoutMs |-> timeoutMs]]
          /\ timers' = timers \cup {c}
          /\ pending' = MapSet(pending, [id |-> id, c |-> c, matcher |-> matcher,
                                         timeout |-> c, command |-> command])
          /\ writes' = [writes EXCEPT ![c] = IF command # "" THEN "inflight" ELSE "none"]
    /\ UNCHANGED <<settlements, rx, emitted, clears>>

\* (variant: execute writes the command and registers it only once the write
\* has completed; the step is the call up to the write)
ExecuteWriteFirst(command, matcher, timeoutMs) ==
    /\ issued < MaxCmds
    /\ LET c  == issued + 1
           id == NewId(issued)
       IN /\ issued' = c
          /\ exec' = [exec EXCEPT ![c] = [id |-> id, command |-> command,
                                          matcher |-> matcher, timeoutMs |-> timeoutMs]]
          /\ writes' = [writes EXCEPT ![c] = IF command # "" THEN "inflight" ELSE "none"]
    /\ UNCHANGED <<pending, timers, settlements, rx, emitted, clears>>

Execute(command, matcher, timeoutMs) ==
    /\ issued < MaxCmds
    /\ QueueExecute(command, matcher, timeoutMs)

\* (variant: the timeout callback rejects without pending.delete(id))
TimerFireKeepEntry(c) ==
    /\ c \in timers
    /\ timers' = timers \ {c}
    /\ settlements' = Settle(settlements, c, TimedOut(exec[c].command, exec[c].timeoutMs))
    /\ UNCHANGED <<pending, exec, issued, writes, rx, emitted, clears>>

\* (variant: the timeout callback empties the map instead of deleting its id)
TimerFireDropAll(c) ==
    /\ c \in timers
    /\ timers' = timers \ {c}
    /\ pending' = << >>
    /\ settlements' = Settle(settlements, c, TimedOut(exec[c].command, exec[c].timeoutMs))
    /\ UNCHANGED <<exec, issued, writes, rx, emitted, clears>>

\* the setTimeout callback of call c
TimerFire(c) ==
    /\ c \in timers
    /\ timers' = timers \ {c}
    /\ pending' = MapDelete(pending, exec[c].id)
    /\ settlements' = Settle(settlements, c, TimedOut(exec[c].command, exec[c].timeoutMs))
    /\ UNCHANGED <<exec, issued, writes, rx, emitted, clears>>

\* port.write calls back without error: send() resolves
WriteOk(c) ==
    /\ writes[c] = "inflight"
    /\ writes' = [writes EXCEPT ![c] = "ok"]
    /\ UNCHANGED <<pending, exec, issued, timers, settlements, rx, emitted, clears>>

\* (variant: the catch handler rejects without pending.delete(id))
WriteFailKeepEntry(c) ==
    /\ writes[c] = "inflight"
    /\ writes' = [writes EXCEPT ![c] = "failed"]
    /\ timers' = ClearTimeout(timers, c)
    /\ settlements' = Settle(settlements, c, WriteFailed)
    /\ UNCHANGED <<pending, exec, issued, rx, emitted, clears>>

\* (variant: the catch handler deletes the entry and rejects without clearTimeout)
WriteFailKeepTimer(c) ==
    /\ writes[c] = "inflight"
    /\ writes' = [writes EXCEPT ![c] = "failed"]
    /\ pending' = MapDelete(pending, exec[c].id)
    /\ settlements' = Settle(settlements, c, WriteFailed)
    /\ UNCHANGED <<timers, exec, issued, rx, emitted, clears>>

\* port.write calls back with an error: send() rejects, execute's catch runs
WriteFail(c) ==
    /\ writes[c] = "inflight"
    /\ writes' = [writes EXCEPT ![c] = "failed"]
    /\ timers' = ClearTimeout(timers, c)
    /\ pending' = MapDelete(pending, exec[c].id)
    /\ settlements' = Settle(settlements, c, WriteFailed)
    /\ UNCHANGED <<exec, issued, rx, emitted, clears>>

\* -------------------------------------------------------- handleMessage
\* (variant: the scan keeps the last accepting entry instead of the first)
LastMatch(p, m) ==
    IF \E i \in 1..Len(p) : Matches(p[i].matcher, m)
    THEN CHOOSE i \in 1..Len(p) :
            /\ Matches(p[i].matcher, m)
            /\ \A j \in (i + 1)..Len(p) : ~Matches(p[j].matcher, m)
    ELSE 0

\* the first entry, in insertion order, whose matcher accepts m (0: none)
FirstMatch(p, m) ==
    IF \E i \in 1..Len(p) : Matches(p[i].matcher, m)
    THEN CHOOSE i \in 1..Len(p) :
            /\ Matches(p[i].matcher, m)
            /\ \A j \in 1..(i - 1) : ~Matches(p[j].matcher, m)
    ELSE 0

\* history: the record of message m, consumed by call `by`
Arrived(m, by) ==
    [n |-> rx.n + 1, msg |-> m, by |-> by,
     offered |-> [i \in 1..Len(pending) |-> pending[i].c]]

\* resolve every entry of p that accepts m
RECURSIVE ResolveAll(_, _, _)
ResolveAll(s, p, m) ==
    IF p = << >> THEN s
    ELSE ResolveAll(IF Matches(Head(p).matcher, m) THEN Settle(s, Head(p).c, Resolved(m)) ELSE s,
                    Tail(p), m)

\* (variant: no `return` after a match: the scan goes on and the message is emitted)
HandleMessageNoReturn(m) ==
    /\ rx.n < MaxMsgs
    /\ timers' = timers \ { pending[i].timeout : i \in { j \in 1..Len(pending) : Matches(pending[j].matcher, m) } }
    /\ pending' = SelectSeq(pending, LAMBDA e : ~Matches(e.matcher, m))
    /\ settlements' = ResolveAll(settlements, pending, m)
    /\ emitted' = Append(emitted, m)
    /\ rx' = Arrived(m, IF FirstMatch(pending, m) # 0 THEN pending[FirstMatch(pending, m)].c ELSE 0)
    /\ UNCHANGED <<exec, issued, writes, clears>>

\* (variant: a consumed message is emitted as 'rxMsg' as well)
HandleMessageEmitAlways(m) ==
    /\ rx.n < MaxMsgs
    /\ emitted' = Append(emitted, m)
    /\ LET i == FirstMatch(pending, m)
       IN IF i # 0
          THEN /\ timers' = ClearTimeout(timers, pending[i].timeout)
               /\ pending' = MapDelete(pending, pending[i].id)
               /\ settlements' = Settle(settlements, pending[i].c, Resolved(m))
               /\ rx' = Arrived(m, pending[i].c)
          ELSE /\ rx' = Arrived(m, 0)
               /\ UNCHANGED <<pending, timers, settlements>>
    /\ UNCHANGED <<exec, issued, writes, clears>>

\* (variant: a match does not clearTimeout the entry's timer)
HandleMessageKeepTimer(m) ==
    /\ rx.n < MaxMsgs
    /\ LET i == FirstMatch(pending, m)
       IN IF i # 0
          THEN /\ pending' = MapDelete(pending, pending[i].id)
               /\ settlements' = Settle(settlements, pending[i].c, Resolved(m))
               /\ rx' = Arrived(m, pending[i].c)
               /\ UNCHANGED <<emitted, timers>>
          ELSE /\ emitted' = Append(emitted, m)
               /\ rx' = Arrived(m, 0)
               /\ UNCHANGED <<pending, timers, settlements>>
    /\ UNCHANGED <<exec, issued, writes, clears>>

\* the parser's 'data' handler: handleMessage(line), m being the line parsed
QueueHandleMessage(m) ==
    /\ LET i == FirstMatch(pending, m)
       IN IF i # 0
          THEN /\ timers' = ClearTimeout(timers, pending[i].timeout)
               /\ pending' = MapDelete(pending, pending[i].id)
               /\ settlements' = Settle(settlements, pending[i].c, Resolved(m))
               /\ rx' = Arrived(m, pending[i].c)
               /\ UNCHANGED emitted
          ELSE /\ emitted' = Append(emitted, m)
               /\ rx' = Arrived(m, 0)
               /\ UNCHANGED <<pending, timers, settlements>>
    /\ UNCHANGED <<exec, issued, writes, clears>>

HandleMessage(m) ==
    /\ rx.n < MaxMsgs
    /\ QueueHandleMessage(m)

\* ---------------------------------------------------------------- clear
RECURSIVE RejectAll(_, _)
RejectAll(s, p) ==
    IF p = << >> THEN s
    ELSE RejectAll(Settle(s, Head(p).c, Cleared), Tail(p))

\* (variant: clear rejects the entries but leaves them in the map)
ClearKeepEntries ==
    /\ clears < MaxClears
    /\ clears' = clears + 1
    /\ timers' = timers \ { pending[i].timeout : i \in 1..Len(pending) }
    /\ settlements' = RejectAll(settlements, pending)
    /\ UNCHANGED <<pending, exec, issued, writes, rx, emitted>>

\* (variant: clear rejects and empties the map without clearTimeout)
ClearKeepTimers ==
    /\ clears < MaxClears
    /\ clears' = clears + 1
    /\ settlements' = RejectAll(settlements, pending)
    /\ pending' = << >>
    /\ UNCHANGED <<timers, exec, issued, writes, rx, emitted>>

Clear ==
    /\ clears < MaxClears
    /\ clears' = clears + 1
    /\ timers' = timers \ { pending[i].timeout : i \in 1..Len(pending) }
    /\ settlements' = RejectAll(settlements, pending)
    /\ pending' = << >>
    /\ UNCHANGED <<exec, issued, writes, rx, emitted>>

\* ----------------------------------------------------------------- Next
\* The CommandQueue on its own: no listener on 'rxMsg', no adapter call.
Next ==
    \/ \E command \in CommandChoices, matcher \in MatcherChoices, t \in TimeoutChoices :
          Execute(command, matcher, t) /\ UNCHANGED <<avars, sequenceNumber, dvars, zdo>>
    \/ \E c \in Calls : TimerFire(c) /\ UNCHANGED <<avars, sequenceNumber, dvars, zdo>>
    \/ \E c \in Calls : WriteOk(c) /\ UNCHANGED <<avars, sequenceNumber, dvars, zdo>>
    \/ \E c \in Calls : WriteFail(c) /\ UNCHANGED <<avars, sequenceNumber, dvars, zdo>>
    \/ \E m \in Messages : HandleMessage(m) /\ UNCHANGED <<avars, sequenceNumber, dvars, zdo>>
    \/ Clear /\ UNCHANGED <<avars, sequenceNumber, dvars, zdo>>

Spec == Init /\ [][Next]_vars

\* The same handlers for runs of one execute() call fewer, with fairness: an
\* armed deadline timer eventually fires (the event loop runs its callback).
LiveCmds == MaxCmds - 1

LiveNext ==
    \/ \E command \in CommandChoices, matcher \in MatcherChoices, t \in TimeoutChoices :
          issued < LiveCmds /\ Execute(command, matcher, t) /\ UNCHANGED <<avars, sequenceNumber, dvars, zdo>>
    \/ \E c \in Calls : TimerFire(c) /\ UNCHANGED <<avars, sequenceNumber, dvars, zdo>>
    \/ \E c \in Calls : WriteOk(c) /\ UNCHANGED <<avars, sequenceNumber, dvars, zdo>>
    \/ \E c \in Calls : WriteFail(c) /\ UNCHANGED <<avars, sequenceNumber, dvars, zdo>>
    \/ \E m \in Messages : HandleMessage(m) /\ UNCHANGED <<avars, sequenceNumber, dvars, zdo>>
    \/ Clear /\ UNCHANGED <<avars, sequenceNumber, dvars, zdo>>

LiveSpec ==
    Init /\ [][LiveNext]_vars /\ \A c \in Calls : WF_vars(TimerFire(c) /\ UNCHANGED <<avars, sequenceNumber, dvars, zdo>>)

\* ============================================================== adapter
\* An async function runs synchronously up to its first await; what follows
\* an await runs as a microtask once the awaited promise has settled.  The
\* microtasks run when the running handler has returned: before any timer or
\* write callback, but not between two lines the parser emits from the same
\* chunk of input, which are handled one after the other in the same turn.

\* number of sendZclFrameToEndpoint() calls made so far
Started == Cardinality({ x \in Exchanges : xch[x].pc # "idle" })

\* exchange x is suspended on the promise of execute() call c
AwaitsCall(x, c) ==
    \/ xch[x].pc = "ack"  /\ xch[x].ackCall = c
    \/ xch[x].pc = "conf" /\ xch[x].confCall = c

\* the exchange suspended on the promise of execute() call c (0: none)
AwaiterOfCall(c) ==
    IF \E x \in Exchanges : AwaitsCall(x, c)
    THEN CHOOSE x \in Exchanges : AwaitsCall(x, c)
    ELSE 0

\* timers fired and writes failed so far
Faults ==
    Cardinality({ c \in ExchCalls : \E i \in 1..Len(settlements[c]) :
                     settlements[c][i].kind \in {"timeout", "writeFailed"} })
    + Cardinality({ w \in Exchanges : wsettle[w] # << >> /\ wsettle[w][1].kind = "timeout" })

\* calls made and events handled so far
Events == Started + rx.n + Faults + clears

\* the exchange suspended on the promise of waiter w (0: none)
AwaiterOfWaiter(w) ==
    IF \E x \in Exchanges : xch[x].pc = "ind" /\ xch[x].waiter = w
    THEN CHOOSE x \in Exchanges : xch[x].pc = "ind" /\ xch[x].waiter = w
    ELSE 0

\* the continuations queued when the promises of `calls` are settled, in that
\* order, for the first time
RECURSIVE WokenByCalls(_)
WokenByCalls(calls) ==
    IF calls = << >> THEN << >>
    ELSE LET c == Head(calls)
         IN (IF c # 0 /\ settlements[c] = << >> /\ AwaiterOfCall(c) # 0
             THEN << AwaiterOfCall(c) >> ELSE << >>) \o WokenByCalls(Tail(calls))

WokenByWaiter(w) ==
    IF w # 0 /\ wsettle[w] = << >> /\ AwaiterOfWaiter(w) # 0
    THEN << AwaiterOfWaiter(w) >> ELSE << >>

\* a handler of the queue settles `calls`: their continuations are queued
Wake(calls) ==
    /\ micro' = micro \o WokenByCalls(calls)
    /\ UNCHANGED <<waitress, wtimers, wsettle, xch, published>>

\* ------------------------------------------------------------- waitress
\* the waiter with ID w is registered
Waiting(ws, w) == \E i \in 1..Len(ws) : ws[i].ID = w

\* index of the first waiter, in insertion order, that the validator accepts
FirstWaiter(ws, payload) ==
    IF \E i \in 1..Len(ws) : WaitressValidator(payload, ws[i].matcher)
    THEN CHOOSE i \in 1..Len(ws) :
            /\ WaitressValidator(payload, ws[i].matcher)
            /\ \A j \in 1..(i - 1) : ~WaitressValidator(payload, ws[j].matcher)
    ELSE 0

\* waitress.remove(ID): the waiter leaves the waitress, its timer is cleared
WaitressRemove(ws, w) == SelectSeq(ws, LAMBDA e : e.ID # w)

\* the values a waiter's promise is settled with
WResolved(payload) == [kind |-> "resolved", payload |-> payload]
WTimedOut          == [kind |-> "timeout",  payload |-> NoPayload]

WOutcome(w) == IF wsettle[w] = << >> THEN "pending" ELSE wsettle[w][1].kind

\* waitress.waitFor(matcher, timeout) followed by start(): the waiter is
\* registered under a fresh ID and its timer armed
NextWaiterID == Cardinality({ x \in Exchanges : xch[x].waiter # 0 }) + 1

WaitFor(matcher) ==
    /\ waitress' = Append(waitress, [ID |-> NextWaiterID, matcher |-> matcher])
    /\ wtimers' = wtimers \cup {NextWaiterID}

\* waitress.resolve(payload), for a payload some waiter accepts: the first
\* such waiter leaves the waitress, its timer is cleared, its promise resolved
WaitressResolve(payload) ==
    LET w == waitress[FirstWaiter(waitress, payload)].ID
    IN /\ waitress' = WaitressRemove(waitress, w)
       /\ wtimers' = wtimers \ {w}
       /\ wsettle' = [wsettle EXCEPT ![w] = Append(@, WResolved(payload))]
       /\ micro' = micro \o WokenByWaiter(w)

\* the timer of waiter w fires: the waiter leaves the waitress, its promise
\* is rejected with the text of waitressTimeoutFormatter
WaiterTimeout(w) ==
    /\ micro = << >>
    /\ w \in wtimers
    /\ wtimers' = wtimers \ {w}
    /\ waitress' = WaitressRemove(waitress, w)
    /\ wsettle' = [wsettle EXCEPT ![w] = Append(@, WTimedOut)]
    /\ micro' = micro \o WokenByWaiter(w)
    /\ UNCHANGED <<xch, published>>
    /\ UNCHANGED qvars

\* ------------------------------------------------ sendZclFrameToEndpoint
\* (variant: disableResponse is not looked at)
ResponseCommandIgnoreDisable(disableResponse, response, disableDefaultResponse) ==
    IF response # NoResponse THEN response
    ELSE IF ~disableDefaultResponse THEN DefaultRspId
    ELSE NoResponse

\* the command identifier the call waits for (NoResponse: it registers no waiter)
ResponseCommand(disableResponse, response, disableDefaultResponse) ==
    IF disableResponse THEN NoResponse
    ELSE IF response # NoResponse THEN response
    ELSE IF ~disableDefaultResponse THEN DefaultRspId
    ELSE NoResponse

\* (variant: the command is handed to queue.execute first, the waiter is
\* registered after it)
SendZclFrameWriteFirst(disableResponse, response, disableDefaultResponse, timeout) ==
    /\ micro = << >>
    /\ Started < MaxExch
    /\ LET x     == Started + 1
           cmdId == ResponseCommand(disableResponse, response, disableDefaultResponse)
       IN /\ QueueExecute("cmd", TypeMatcher("zclReq"), DEFAULT_TIMEOUT)
          /\ IF cmdId # NoResponse
             THEN WaitFor(WaitMatcher(Device, Endpoint, Tsn(x), Cluster, cmdId))
             ELSE UNCHANGED <<waitress, wtimers>>
          /\ xch' = [xch EXCEPT ![x] =
                        [pc |-> "ack",
                         waiter |-> IF cmdId # NoResponse THEN NextWaiterID ELSE 0,
                         waiterAt |-> issued', commandIdentifier |-> cmdId,
                         timeout |-> timeout, ackCall |-> issued + 1,
                         confCall |-> 0, out |-> NoOut]]
    /\ UNCHANGED <<wsettle, micro, published>>

\* the call, up to its first await: the waiter is registered and started,
\* then the command is handed to queue.execute, which writes it
SendZclFrameToEndpoint(disableResponse, response, disableDefaultResponse, timeout) ==
    /\ micro = << >>
    /\ Started < MaxExch
    /\ LET x     == Started + 1
           cmdId == ResponseCommand(disableResponse, response, disableDefaultResponse)
       IN /\ IF cmdId # NoResponse
             THEN WaitFor(WaitMatcher(Device, Endpoint, Tsn(x), Cluster, cmdId))
             ELSE UNCHANGED <<waitress, wtimers>>
          /\ QueueExecute("cmd", TypeMatcher("zclReq"), DEFAULT_TIMEOUT)
          /\ xch' = [xch EXCEPT ![x] =
                        [pc |-> "ack",
                         waiter |-> IF cmdId # NoResponse THEN NextWaiterID ELSE 0,
                         waiterAt |-> issued, commandIdentifier |-> cmdId,
                         timeout |-> timeout, ackCall |-> issued + 1,
                         confCall |-> 0, out |-> NoOut]]
    /\ UNCHANGED <<wsettle, micro, published>>

\* (variant: the waiter is taken out of the waitress, its timer stays armed)
CancelKeepTimer(x) ==
    /\ waitress' = WaitressRemove(waitress, xch[x].waiter)
    /\ UNCHANGED wtimers

\* waiter?.cancel()
Cancel(x) ==
    /\ waitress' = WaitressRemove(waitress, xch[x].waiter)
    /\ wtimers' = wtimers \ {xch[x].waiter}

\* the call throws: its promise is rejected with the error
Fail(x, error, status) ==
    /\ xch' = [xch EXCEPT ![x].pc = "failed", ![x].out = Threw(error, status)]
    /\ micro' = Tail(micro)
    /\ UNCHANGED <<wsettle, published>>
    /\ UNCHANGED qvars

\* `waiter?.cancel(); throw new Error(...)` inside the try block; the catch
\* block cancels once more, which finds no waiter
CancelAndThrow(x, error, status) ==
    /\ Cancel(x)
    /\ Fail(x, error, status)

\* (variant: the catch block rethrows without waiter?.cancel())
CatchKeepWaiter(x, error) ==
    /\ UNCHANGED <<waitress, wtimers>>
    /\ Fail(x, error, 0)

\* an awaited promise is rejected; the catch block: waiter?.cancel(); throw error
Catch(x, error) ==
    /\ Cancel(x)
    /\ Fail(x, error, 0)

\* (variant: the confirm phase accepts a zclConf of any sequence)
ResumeAckAnyConf(x) ==
    LET o == settlements[xch[x].ackCall][1]
    IN IF o.kind # "resolved" THEN Catch(x, o.kind)
       ELSE IF o.msg.type # "zclReq" THEN CancelAndThrow(x, "notSent", 0)
       ELSE /\ QueueExecute("", TypeMatcher("zclConf"), xch[x].timeout)
            /\ xch' = [xch EXCEPT ![x].pc = "conf", ![x].confCall = issued + 1]
            /\ micro' = Tail(micro)
            /\ UNCHANGED <<waitress, wtimers, wsettle, published>>

\* (variant: an ack that carries a non-zero status fails the call)
ResumeAckCheckStatus(x) ==
    LET o == settlements[xch[x].ackCall][1]
    IN IF o.kind # "resolved" THEN Catch(x, o.kind)
       ELSE IF o.msg.type # "zclReq" THEN CancelAndThrow(x, "notSent", 0)
       ELSE IF o.msg.status # 0 THEN CancelAndThrow(x, "status", o.msg.status)
       ELSE /\ QueueExecute("", ConfMatcher(o.msg.sequence), xch[x].timeout)
            /\ xch' = [xch EXCEPT ![x].pc = "conf", ![x].confCall = issued + 1]
            /\ micro' = Tail(micro)
            /\ UNCHANGED <<waitress, wtimers, wsettle, published>>

\* after `await this.queue.execute(command, ...)`: the confirm phase is registered
ResumeAck(x) ==
    LET o == settlements[xch[x].ackCall][1]
    IN IF o.kind # "resolved" THEN Catch(x, o.kind)
       ELSE IF o.msg.type # "zclReq" THEN CancelAndThrow(x, "notSent", 0)
       ELSE /\ QueueExecute("", ConfMatcher(o.msg.sequence), xch[x].timeout)
            /\ xch' = [xch EXCEPT ![x].pc = "conf", ![x].confCall = issued + 1]
            /\ micro' = Tail(micro)
            /\ UNCHANGED <<waitress, wtimers, wsettle, published>>

\* (variant: the status of the confirm is not looked at)
ResumeConfIgnoreStatus(x) ==
    LET o == settlements[xch[x].confCall][1]
    IN IF o.kind # "resolved" THEN Catch(x, o.kind)
       ELSE IF xch[x].waiter # 0
            THEN /\ xch' = [xch EXCEPT ![x].pc = "ind"]
                 /\ micro' = Tail(micro) \o
                        (IF wsettle[xch[x].waiter] # << >> THEN << x >> ELSE << >>)
                 /\ UNCHANGED <<waitress, wtimers, wsettle, published>>
                 /\ UNCHANGED qvars
            ELSE /\ xch' = [xch EXCEPT ![x].pc = "done", ![x].out = Undefined]
                 /\ micro' = Tail(micro)
                 /\ UNCHANGED <<waitress, wtimers, wsettle, published>>
                 /\ UNCHANGED qvars

\* after `await this.queue.execute('', ...)`: the status is checked, then the
\* call returns undefined or goes on to await its waiter
ResumeConf(x) ==
    LET o == settlements[xch[x].confCall][1]
    IN IF o.kind # "resolved" THEN Catch(x, o.kind)
       ELSE IF o.msg.type = "zclConf" /\ o.msg.status # 0
            THEN CancelAndThrow(x, "status", o.msg.status)
       ELSE IF xch[x].waiter # 0
            THEN /\ xch' = [xch EXCEPT ![x].pc = "ind"]
                 /\ micro' = Tail(micro) \o
                        (IF wsettle[xch[x].waiter] # << >> THEN << x >> ELSE << >>)
                 /\ UNCHANGED <<waitress, wtimers, wsettle, published>>
                 /\ UNCHANGED qvars
            ELSE /\ xch' = [xch EXCEPT ![x].pc = "done", ![x].out = Undefined]
                 /\ micro' = Tail(micro)
                 /\ UNCHANGED <<waitress, wtimers, wsettle, published>>
                 /\ UNCHANGED qvars

\* (variant: the call returns undefined instead of the awaited result)
ResumeIndReturnUndefined(x) ==
    LET o == wsettle[xch[x].waiter][1]
    IN IF o.kind # "resolved" THEN Catch(x, "waitressTimeout")
       ELSE /\ xch' = [xch EXCEPT ![x].pc = "done", ![x].out = Undefined]
            /\ micro' = Tail(micro)
            /\ UNCHANGED <<waitress, wtimers, wsettle, published>>
            /\ UNCHANGED qvars

\* after `await waiter.promise`
ResumeInd(x) ==
    LET o == wsettle[xch[x].waiter][1]
    IN IF o.kind # "resolved" THEN Catch(x, "waitressTimeout")
       ELSE /\ xch' = [xch EXCEPT ![x].pc = "done", ![x].out = Returned(o.payload)]
            /\ micro' = Tail(micro)
            /\ UNCHANGED <<waitress, wtimers, wsettle, published>>
            /\ UNCHANGED qvars

\* the oldest microtask runs: exchange x goes on from its await
Resume(x) ==
    /\ micro # << >>
    /\ Head(micro) = x
    /\ CASE xch[x].pc = "ack"  -> ResumeAck(x)
         [] xch[x].pc = "conf" -> ResumeConf(x)
         [] xch[x].pc = "ind"  -> ResumeInd(x)

\* ------------------------------------------------------- processMessages
\* (variant: the payload is emitted whether or not the waitress took it)
ProcessMessagesEmitAlways(msg) ==
    IF msg.type = "zclInd"
    THEN LET payload == ZclPayload(msg)
         IN IF FirstWaiter(waitress, payload) # 0
            THEN /\ WaitressResolve(payload)
                 /\ published' = Append(published, payload)
                 /\ UNCHANGED xch
            ELSE /\ published' = Append(published, payload)
                 /\ UNCHANGED <<waitress, wtimers, wsettle, xch, micro>>
    ELSE UNCHANGED avars

\* the listener of 'rxMsg'; of the message types of a run only 'zclInd' changes
\* the state kept here
ProcessMessages(msg) ==
    IF msg.type = "zclInd"
    THEN LET payload == ZclPayload(msg)
         IN IF FirstWaiter(waitress, payload) # 0
            THEN /\ WaitressResolve(payload)
                 /\ UNCHANGED <<xch, published>>
            ELSE /\ published' = Append(published, payload)
                 /\ UNCHANGED <<waitress, wtimers, wsettle, xch, micro>>
    ELSE UNCHANGED avars

\* (variant: an indication is offered to the waitress first, and to the
\* pending commands only when no waiter accepts it)
ReceiveWaitressFirst(m) ==
    IF m.type = "zclInd" /\ FirstWaiter(waitress, ZclPayload(m)) # 0
    THEN /\ rx' = Arrived(m, 0)
         /\ UNCHANGED <<pending, exec, issued, timers, writes, settlements, emitted, clears>>
         /\ ProcessMessages(m)
    ELSE /\ QueueHandleMessage(m)
         /\ IF rx'.by # 0 THEN Wake(<< rx'.by >>) ELSE ProcessMessages(m)

\* the parser emits a line: handleMessage offers it to the pending commands
\* and, if none accepts it, emits 'rxMsg', which calls processMessages
Receive(m) ==
    /\ QueueHandleMessage(m)
    /\ IF rx'.by # 0 THEN Wake(<< rx'.by >>) ELSE ProcessMessages(m)

\* stop(): this.queue.clear()
Stop ==
    /\ micro = << >>
    /\ Clear
    /\ Wake([i \in 1..Len(pending) |-> pending[i].c])

ExchInit == QueueInit(ExchCalls) /\ AdapterInit /\ DecoderIdle /\ ZdoIdle

\* The adapter and its queue.  A write callback without error changes nothing
\* the adapter reads, so a write is left in flight until it fails, if it does.

ExchNext ==
    \/ /\ micro = << >> /\ Started < MaxExch /\ Events < MaxEvents
       /\ \E disableResponse \in BOOLEAN, response \in {NoResponse, ResponseId},
             disableDefaultResponse \in BOOLEAN, timeout \in ExchTimeouts :
             SendZclFrameToEndpoint(disableResponse, response, disableDefaultResponse, timeout)
       /\ UNCHANGED <<sequenceNumber, dvars, zdo>>
    \/ \E x \in Exchanges : Resume(x) /\ UNCHANGED <<sequenceNumber, dvars, zdo>>
    \/ Events < MaxEvents /\ \E m \in ExchMessages : Receive(m)
       /\ UNCHANGED <<sequenceNumber, dvars, zdo>>
    \/ /\ micro = << >> /\ timers # {} /\ Events < MaxEvents
       /\ \E c \in ExchCalls : TimerFire(c) /\ Wake(<< c >>)
       /\ UNCHANGED <<sequenceNumber, dvars, zdo>>
    \/ /\ micro = << >> /\ Events < MaxEvents
       /\ \E c \in ExchCalls : WriteFail(c) /\ Wake(<< c >>)
       /\ UNCHANGED <<sequenceNumber, dvars, zdo>>
    \/ /\ wtimers # {} /\ Events < MaxEvents
       /\ \E w \in Exchanges : WaiterTimeout(w)
       /\ UNCHANGED <<sequenceNumber, dvars, zdo>>
    \/ Events < MaxEvents /\ Stop /\ UNCHANGED <<sequenceNumber, dvars, zdo>>

ExchSpec == ExchInit /\ [][ExchNext]_vars

\* ------------------------------------------------------------ vocabulary
Kinds(c) == { settlements[c][i].kind : i \in 1..Len(settlements[c]) }

\* the outcome the caller's promise takes: that of the first resolve/reject call
Outcome(c) == IF settlements[c] = << >> THEN "pending" ELSE settlements[c][1].kind

InReg(p, c) == \E i \in 1..Len(p) : p[i].c = c
InRegistry(c) == InReg(pending, c)

\* the calls that were registered when the last message arrived
Offered == { rx.offered[i] : i \in 1..Len(rx.offered) }

\* call c was made before the last message arrived, was no longer registered
\* when it arrived, and its matcher accepts that message
MissedBy(c) ==
    /\ rx.n >= 1
    /\ Matches(exec[c].matcher, rx.msg)
    /\ c \notin Offered
    /\ \E d \in Offered : c < d

C2_Step ==
    rx'.n = rx.n + 1 =>
        LET m   == rx'.msg
            acc == { i \in 1..Len(pending) : Matches(pending[i].matcher, m) }
        IN Cardinality(acc) >= 2 =>
              LET first == CHOOSE i \in acc : \A j \in acc : i <= j
              IN /\ settlements'[pending[first].c] =
                        Append(settlements[pending[first].c], Resolved(m))
                 /\ \A j \in acc \ {first} :
                        /\ \E k \in 1..Len(pending') : pending'[k] = pending[j]
                        /\ settlements'[pending[j].c] = settlements[pending[j].c]

C2_FIFO == [][C2_Step]_vars

C2_Witness ==
    /\ rx.n >= 1
    /\ LET acc == SelectSeq(rx.offered, LAMBDA c : Matches(exec[c].matcher, rx.msg))
       IN /\ Len(acc) >= 2
          /\ rx.by = acc[1]
          /\ settlements[acc[1]] = << Resolved(rx.msg) >>
          /\ InRegistry(acc[2])
          /\ settlements[acc[2]] = << >>

\* ------------------------------------------------------------------ C3
\* C3: handling one message settles at most one pending command, by
\* resolving it with that message; all other entries stay in the registry
\* with their matcher, their armed timer and their relative order unchanged.
C3_Step ==
    rx'.n = rx.n + 1 =>
        LET m          == rx'.msg
            settledNow == { c \in Calls : settlements'[c] # settlements[c] }
        IN /\ Cardinality(settledNow) <= 1
           /\ \A c \in settledNow : settlements'[c] = Append(settlements[c], Resolved(m))
           /\ pending' = SelectSeq(pending, LAMBDA e : e.c \notin settledNow)
           /\ timers' = timers \ settledNow

C3_AtMostOnePerMessage == [][C3_Step]_vars

C3_Witness ==
    /\ rx.by # 0
    /\ Len(rx.offered) >= 2
    /\ \A c \in Offered \ {rx.by} :
          /\ InRegistry(c)
          /\ c \in timers
          /\ settlements[c] = << >>

\* ------------------------------------------------------------------ C4
\* C4: a handled message takes exactly one of two routes: some registered
\* matcher accepts it, and then exactly one command is resolved with it and
\* nothing is emitted; or none accepts it, and then nothing is settled and it
\* is appended once to the 'rxMsg' sink. No other step emits.
C4_Step ==
    IF rx'.n = rx.n + 1
    THEN LET m         == rx'.msg
             accepted  == \E i \in 1..Len(pending) : Matches(pending[i].matcher, m)
             consumers == { c \in Calls : settlements'[c] = Append(settlements[c], Resolved(m)) }
         IN IF accepted
            THEN Cardinality(consumers) = 1 /\ emitted' = emitted /\ rx'.by \in consumers
            ELSE settlements' = settlements /\ emitted' = Append(emitted, m) /\ rx'.by = 0
    ELSE emitted' = emitted

C4_ConsumedOrEmitted == [][C4_Step]_vars

C4_Witness ==
    /\ rx.n >= 2
    /\ Len(emitted) >= 1
    /\ \E c \in Calls : "resolved" \in Kinds(c)

\* ------------------------------------------------------------------ C5
\* C5: a command whose timer fired was rejected with the timeout error
\* carrying its command and duration, is out of the registry from then on,
\* and is never resolved by a message afterwards.
C5_TimeoutRemoves ==
    \A c \in Calls :
        "timeout" \in Kinds(c) =>
            /\ settlements[c][1] = TimedOut(exec[c].command, exec[c].timeoutMs)
            /\ ~InRegistry(c)
            /\ c \notin timers
            /\ "resolved" \notin Kinds(c)
            /\ rx.by # c

C5_Witness ==
    \E c \in Calls : Outcome(c) = "timeout" /\ MissedBy(c)

\* ------------------------------------------------------------------ C6
\* C6: of a command's match and its timeout only the first to occur takes
\* effect: no command is both resolved and timed out, and once either
\* happened the command has neither an armed timer nor a registry entry.
C6_FirstWins ==
    \A c \in Calls :
        /\ ~("resolved" \in Kinds(c) /\ "timeout" \in Kinds(c))
        /\ (Kinds(c) \cap {"resolved", "timeout"} # {}) => (c \notin timers /\ ~InRegistry(c))

C6_Witness ==
    \E c, d \in Calls :
        /\ Outcome(c) = "resolved"
        /\ Outcome(d) = "timeout"
        /\ exec[c].matcher = exec[d].matcher

\* ------------------------------------------------------------------ C7
\* C7: a clear() step rejects every command registered at that moment with
\* the 'Command queue cleared' error, cancels its timer and empties the
\* registry; a cleared command is never timed out or resolved afterwards.
C7_Step ==
    clears' = clears + 1 =>
        /\ pending' = << >>
        /\ \A i \in 1..Len(pending) :
              /\ settlements'[pending[i].c] = << Cleared >>
              /\ pending[i].c \notin timers'

C7_Cleared ==
    \A c \in Calls :
        "cleared" \in Kinds(c) =>
            /\ settlements[c][1] = Cleared
            /\ Cleared.kind # TimedOut(exec[c].command, exec[c].timeoutMs).kind
            /\ Kinds(c) \cap {"timeout", "resolved"} = {}
            /\ ~InRegistry(c)
            /\ c \notin timers

C7_ClearSettlesAll == [][C7_Step]_vars /\ []C7_Cleared

C7_Witness ==
    \E c \in Calls : Outcome(c) = "cleared" /\ pending # << >> /\ MissedBy(c)

\* ------------------------------------------------------------------ C8
\* C8: clear() acts on exactly the commands registered when it runs. A
\* command not in the registry at a clear() step is untouched by it; a
\* freshly executed command is registered with its timer armed; and an entry
\* leaves the registry only in a step that settles that very command: its
\* own match, its own timeout, its own write failure, or a clear() step.
C8_Step ==
    \A c \in Calls :
        /\ (clears' = clears + 1 /\ ~InRegistry(c)) =>
              (settlements'[c] = settlements[c] /\ ~InReg(pending', c))
        /\ (issued' = issued + 1 /\ c = issued') =>
              (InReg(pending', c) /\ c \in timers' /\ settlements'[c] = << >>)
        /\ (InRegistry(c) /\ ~InReg(pending', c)) =>
              \/ clears' = clears + 1 /\ settlements'[c] = Append(settlements[c], Cleared)
              \/ rx'.n = rx.n + 1 /\ rx'.by = c
                   /\ settlements'[c] = Append(settlements[c], Resolved(rx'.msg))
              \/ c \in timers /\ c \notin timers'
                   /\ settlements'[c] = Append(settlements[c], TimedOut(exec[c].command, exec[c].timeoutMs))
              \/ writes[c] = "inflight" /\ writes'[c] = "failed"
                   /\ settlements'[c] = Append(settlements[c], WriteFailed)

C8_ClearSparesLater == [][C8_Step]_vars

C8_Witness ==
    /\ clears >= 1
    /\ \E c, d \in Calls :
          /\ d < c
          /\ Outcome(d) = "cleared"
          /\ InRegistry(c)
          /\ c \in timers
          /\ settlements[c] = << >>

\* ------------------------------------------------------------------ C9
\* C9: under LiveSpec (an armed timer eventually fires) every registered
\* command eventually is out of the registry and settled.
C9_EventuallySettled ==
    \A c \in Calls : InRegistry(c) ~> (~InRegistry(c) /\ settlements[c] # << >>)

C9_Witness ==
    \E c \in Calls :
        /\ settlements[c] = << TimedOut(exec[c].command, exec[c].timeoutMs) >>
        /\ ~InRegistry(c)
        /\ rx.n = 0
        /\ clears = 0
        /\ writes[c] # "failed"

\* ----------------------------------------------------------------- C10
\* C10: the step in which the transport reports a write failure for a
\* command removes its entry, disarms its timer and, the command being still
\* registered, rejects it with the write error as its only settlement; from
\* then on it has no entry and no timer, the write error is the last call on
\* it, and no later message is consumed by it.
C10_Step ==
    \A c \in Calls :
        (writes[c] = "inflight" /\ writes'[c] = "failed") =>
            /\ ~InReg(pending', c)
            /\ c \notin timers'
            /\ InRegistry(c) => settlements'[c] = << WriteFailed >>

C10_Failed ==
    \A c \in Calls :
        writes[c] = "failed" =>
            LET s == settlements[c]
            IN /\ ~InRegistry(c)
               /\ c \notin timers
               /\ Len(s) >= 1
               /\ s[Len(s)] = WriteFailed
               /\ (s[1] = WriteFailed => Len(s) = 1)
               /\ (Outcome(c) = "writeFailed" => rx.by # c)

MatcherOf(x) ==
    WaitMatcher(Device, Endpoint, Tsn(x), Cluster, xch[x].commandIdentifier)

\* exchange x registered a waiter before it sent
HasWaiter(x) == xch[x].waiter # 0

\* the step handles a line
Handles == rx'.n = rx.n + 1

\* the confirm exchange x consumed (NoMsg: none)
ConfOf(x) ==
    IF xch[x].confCall # 0 /\ Outcome(xch[x].confCall) = "resolved"
    THEN settlements[xch[x].confCall][1].msg ELSE NoMsg

\* the ack exchange x consumed (NoMsg: none)
AckOf(x) ==
    IF xch[x].ackCall # 0 /\ Outcome(xch[x].ackCall) = "resolved"
    THEN settlements[xch[x].ackCall][1].msg ELSE NoMsg

\* exchange x threw `ZCL command failed with status ...`
StatusFailed(x) == xch[x].pc = "failed" /\ xch[x].out.error = "status"

\* ------------------------------------------------------------------ C11
\* C11: when the confirm an exchange consumed has a non-zero status, the
\* continuation fails the exchange with that status and its waiter leaves the
\* waitress; from then on the waiter is not registered, its promise is not
\* settled again, and an indication its matcher accepts is emitted as
\* 'zclPayload'.
C11_Step ==
    \A x \in Exchanges :
        /\ (xch[x].pc = "conf" /\ xch'[x].pc # "conf" /\ ConfOf(x).status # 0) =>
              /\ xch'[x].pc = "failed"
              /\ xch'[x].out = Threw("status", ConfOf(x).status)
              /\ ~Waiting(waitress', xch[x].waiter)
              /\ xch[x].waiter \notin wtimers'
        /\ (StatusFailed(x) /\ HasWaiter(x)) =>
              /\ wsettle'[xch[x].waiter] = wsettle[xch[x].waiter]
              /\ (/\ Handles
                  /\ rx'.msg.type = "zclInd"
                  /\ WaitressValidator(ZclPayload(rx'.msg), MatcherOf(x)))
                 => published' = Append(published, ZclPayload(rx'.msg))

C11_Cancelled ==
    \A x \in Exchanges :
        StatusFailed(x) =>
            /\ ConfOf(x).type = "zclConf" /\ ConfOf(x).status # 0
            /\ HasWaiter(x) => ~Waiting(waitress, xch[x].waiter) /\ xch[x].waiter \notin wtimers

C11_NonZeroStatus == [][C11_Step]_vars /\ []C11_Cancelled

\* an exchange failed on the status of its confirm with its waiter unsettled,
\* and the indication answering it was then published
C11_Witness ==
    \E x \in Exchanges :
        /\ StatusFailed(x) /\ HasWaiter(x)
        /\ wsettle[xch[x].waiter] = << >>
        /\ rx.msg.type = "zclInd"
        /\ WaitressValidator(ZclPayload(rx.msg), MatcherOf(x))
        /\ published = << ZclPayload(rx.msg) >>

\* ------------------------------------------------------------------ C12
\* C12: no stuck registration. An exchange that has failed, whether its ack
\* or confirm timed out, its write failed, the queue was cleared or the
\* confirm had a non-zero status, has no waiter left in the waitress and no
\* waiter timer armed.
C12_NoStuckWaiter ==
    \A x \in Exchanges :
        (xch[x].pc = "failed" /\ HasWaiter(x)) =>
            /\ ~Waiting(waitress, xch[x].waiter)
            /\ xch[x].waiter \notin wtimers

\* one exchange failed on a write failure in its ack phase and another on the
\* timeout of its confirm, both with their waiters unsettled
C12_Witness ==
    \E x, y \in Exchanges :
        /\ xch[x].pc = "failed" /\ HasWaiter(x) /\ wsettle[xch[x].waiter] = << >>
        /\ xch[x].confCall = 0 /\ xch[x].out.error = "writeFailed"
        /\ xch[y].pc = "failed" /\ HasWaiter(y) /\ wsettle[xch[y].waiter] = << >>
        /\ xch[y].confCall # 0 /\ xch[y].out.error = "timeout"

\* ------------------------------------------------------------------ C13
\* C13: pre-registration. In the step that writes the command of an exchange
\* that waits for a response, the waiter is in the waitress with its timer
\* armed, and it was registered before queue.execute was called: fewer
\* execute() calls had been made when it was registered than the number of
\* the call that wrote the command.
C13_Step ==
    \A x \in Exchanges :
        (xch[x].pc = "idle" /\ xch'[x].pc # "idle") =>
            /\ writes[xch'[x].ackCall] = "none"
            /\ writes'[xch'[x].ackCall] = "inflight"
            /\ xch'[x].commandIdentifier # NoResponse =>
                  /\ Waiting(waitress', xch'[x].waiter)
                  /\ xch'[x].waiter \in wtimers'
                  /\ xch'[x].waiterAt < xch'[x].ackCall

C13_Registered ==
    \A x \in Exchanges :
        (xch[x].pc # "idle" /\ xch[x].commandIdentifier # NoResponse) =>
            /\ HasWaiter(x)
            /\ xch[x].waiterAt < xch[x].ackCall
            /\ writes[xch[x].ackCall] # "none"

C13_PreRegistration == [][C13_Step]_vars /\ []C13_Registered

\* the command of an exchange was written and nothing else has happened: its
\* waiter is registered and started
C13_Witness ==
    \E x \in Exchanges :
        /\ xch[x].pc = "ack" /\ HasWaiter(x)
        /\ writes[xch[x].ackCall] = "inflight"
        /\ Waiting(waitress, xch[x].waiter) /\ xch[x].waiter \in wtimers
        /\ rx.n = 0

\* ------------------------------------------------------------------ C14
\* exchange x's continuation is queued
Queued(x) == \E i \in 1..Len(micro) : micro[i] = x

\* C14: an indication that arrives while the exchange still awaits its ack or
\* its confirm, and that the exchange's registered waiter accepts, resolves
\* that waiter in the step that handles it and is not published.  An exchange
\* whose waiter was resolved and whose confirm had status zero does not fail:
\* once it awaits the waiter its continuation is queued, and it returns the
\* payload the waiter was resolved with.
C14_Step ==
    \A x \in Exchanges :
        (/\ Handles
         /\ rx'.msg.type = "zclInd"
         /\ rx'.by = 0
         /\ xch[x].pc \in {"ack", "conf"}
         /\ Waiting(waitress, xch[x].waiter)
         /\ WaitressValidator(ZclPayload(rx'.msg), MatcherOf(x)))
        => /\ wsettle'[xch[x].waiter] = << WResolved(ZclPayload(rx'.msg)) >>
           /\ ~Waiting(waitress', xch[x].waiter)
           /\ published' = published

C14_Returned ==
    \A x \in Exchanges :
        (HasWaiter(x) /\ WOutcome(xch[x].waiter) = "resolved") =>
            /\ (ConfOf(x).type = "zclConf" /\ ConfOf(x).status = 0) =>
                  xch[x].pc \in {"conf", "ind", "done"}
            /\ xch[x].pc = "ind" => Queued(x)
            /\ xch[x].pc = "done" =>
                  xch[x].out = Returned(wsettle[xch[x].waiter][1].payload)

C14_EarlyIndication == [][C14_Step]_vars /\ []C14_Returned

\* three lines were handled, the confirm last, so the indication came before
\* it, and the exchange returned the indication
C14_Witness ==
    \E x \in Exchanges :
        /\ xch[x].pc = "done"
        /\ rx.n = 3 /\ rx.msg = Msg("zclConf", 1, 0) /\ rx.by = xch[x].confCall
        /\ emitted = << ZclInd(Device, Endpoint, Cluster, 1, ResponseId) >>
        /\ xch[x].out = Returned(ZclPayload(emitted[1]))

\* ------------------------------------------------------------------ C15
\* C15: the confirm phase is registered before the line that follows the ack
\* is handled.  When the last line handled was the ack exchange x consumed and
\* x has not left its confirm phase, a zclConf carrying that ack's sequence
\* that is handled next is consumed by a pending command and not emitted as
\* 'rxMsg'.
C15_Step ==
    \A x \in Exchanges :
        (/\ Handles
         /\ rx.by # 0 /\ rx.by = xch[x].ackCall
         /\ \/ xch[x].pc = "ack"
            \/ xch[x].pc = "conf" /\ InRegistry(xch[x].confCall)
         /\ rx'.msg.type = "zclConf"
         /\ rx'.msg.sequence = rx.msg.sequence)
        => /\ rx'.by # 0
           /\ emitted' = emitted

C15_ConfirmAfterAck == [][C15_Step]_vars

\* ------------------------------------------------------------------ C16
\* C16: an exchange has a confirm phase only once it consumed a zclReq ack;
\* the pending command of that phase writes nothing and accepts exactly the
\* zclConf messages carrying the ack's sequence, so what resolves it is such a
\* message; a zclConf of another sequence leaves it registered and unsettled.
C16_Keyed ==
    \A x \in Exchanges :
        /\ xch[x].pc \in {"conf", "ind", "done"} => xch[x].confCall # 0
        /\ xch[x].confCall # 0 =>
              /\ AckOf(x).type = "zclReq"
              /\ xch[x].ackCall < xch[x].confCall
              /\ exec[xch[x].confCall].command = ""
              /\ exec[xch[x].confCall].matcher = ConfMatcher(AckOf(x).sequence)
              /\ Outcome(xch[x].confCall) = "resolved" =>
                    /\ ConfOf(x).type = "zclConf"
                    /\ ConfOf(x).sequence = AckOf(x).sequence

C16_Step ==
    \A x \in Exchanges :
        (/\ Handles
         /\ xch[x].pc = "conf" /\ InRegistry(xch[x].confCall)
         /\ ~(rx'.msg.type = "zclConf" /\ rx'.msg.sequence = AckOf(x).sequence))
        => /\ InReg(pending', xch[x].confCall)
           /\ settlements'[xch[x].confCall] = << >>
           /\ xch'[x] = xch[x]

C16_ConfirmKeyedOnAck == [][C16_Step]_vars /\ []C16_Keyed

\* a zclConf of another sequence was handled and emitted while the confirm
\* phase of an exchange was, and still is, pending
C16_Witness ==
    \E x \in Exchanges :
        /\ xch[x].pc = "conf" /\ InRegistry(xch[x].confCall)
        /\ rx.msg = Msg("zclConf", 2, 0) /\ rx.by = 0
        /\ xch[x].confCall \in Offered
        /\ AckOf(x).sequence = 1

\* ------------------------------------------------------------------ C17
\* C17: a call registers no waiter exactly when disableResponse is set, or the
\* command has no response and the default response is disabled.  Such an
\* exchange never awaits an indication: once its confirm phase consumed a
\* zero-status confirm its continuation is queued, and that continuation
\* returns undefined, with neither of its pending commands in the queue, none
\* of their timers armed and no waiter for its frame in the waitress.
C17_Step ==
    \A x \in Exchanges :
        (/\ ~HasWaiter(x)
         /\ xch[x].pc = "conf" /\ xch'[x].pc # "conf"
         /\ ConfOf(x).type = "zclConf" /\ ConfOf(x).status = 0)
        => /\ xch'[x].pc = "done"
           /\ xch'[x].out = Undefined

C17_NoWaiter ==
    /\ \A disableResponse \in BOOLEAN, response \in {NoResponse, ResponseId},
          disableDefaultResponse \in BOOLEAN :
          ResponseCommand(disableResponse, response, disableDefaultResponse) = NoResponse
             <=> (disableResponse \/ (response = NoResponse /\ disableDefaultResponse))
    /\ \A x \in Exchanges :
          /\ xch[x].pc # "idle" => (HasWaiter(x) <=> xch[x].commandIdentifier # NoResponse)
          /\ ~HasWaiter(x) =>
                /\ xch[x].pc # "ind"
                /\ \A i \in 1..Len(waitress) :
                      waitress[i].matcher.transactionSequenceNumber # Tsn(x)
                /\ (ConfOf(x).type = "zclConf" /\ ConfOf(x).status = 0) =>
                      \/ xch[x].pc = "conf" /\ Queued(x)
                      \/ xch[x].pc = "done"
                /\ xch[x].pc = "done" =>
                      /\ xch[x].out = Undefined
                      /\ ~InRegistry(xch[x].ackCall) /\ ~InRegistry(xch[x].confCall)
                      /\ xch[x].ackCall \notin timers /\ xch[x].confCall \notin timers

C17_DoneAfterConfirm == [][C17_Step]_vars /\ []C17_NoWaiter

\* an exchange without waiter returned undefined, the zero-status confirm
\* being the last line handled
C17_Witness ==
    \E x \in Exchanges :
        /\ xch[x].pc = "done" /\ ~HasWaiter(x)
        /\ xch[x].out = Undefined
        /\ rx.msg = Msg("zclConf", 1, 0) /\ rx.by = xch[x].confCall

\* ------------------------------------------------------------------ C18
\* the registered waiters whose matcher accepts payload
Accepting(payload) ==
    { waitress[i].ID : i \in { j \in 1..Len(waitress) :
                                  WaitressValidator(payload, waitress[j].matcher) } }

\* C18: 'zclPayload' is emitted only while a zclInd line is handled that no
\* pending command consumed.  Such a line is offered to the waitress first: if
\* a registered waiter accepts its payload, one accepting waiter is resolved
\* with it and leaves the waitress, and nothing is emitted; if none accepts
\* it, no waiter changes and the payload is emitted as 'zclPayload' once.
C18_Step ==
    IF Handles /\ rx'.msg.type = "zclInd" /\ rx'.by = 0
    THEN LET payload == ZclPayload(rx'.msg)
         IN IF Accepting(payload) # {}
            THEN /\ published' = published
                 /\ \E w \in Accepting(payload) :
                       /\ wsettle' = [wsettle EXCEPT ![w] = Append(@, WResolved(payload))]
                       /\ ~Waiting(waitress', w)
                       /\ \A v \in Accepting(payload) \ {w} : Waiting(waitress', v)
            ELSE /\ published' = Append(published, payload)
                 /\ wsettle' = wsettle
                 /\ waitress' = waitress
    ELSE published' = published

C18_OfferedThenPublished == [][C18_Step]_vars

\* an indication resolved a waiter and was not published; the same indication,
\* handled again with the waiter gone, was published once
C18_Witness ==
    \E w \in Exchanges :
        /\ rx.n >= 2 /\ rx.msg.type = "zclInd" /\ rx.by = 0
        /\ wsettle[w] = << WResolved(ZclPayload(rx.msg)) >>
        /\ published = << ZclPayload(rx.msg) >>
        /\ emitted = << rx.msg, rx.msg >>

\* ------------------------------------------------------------------ C19
\* the waiter IDs handed out so far
Waiters == { xch[x].waiter : x \in Exchanges } \ {0}

\* C19: a step in which a waiter leaves the waitress unsettled is a cancel:
\* it takes exactly that waiter out, in place, and disarms its timer; no
\* promise is settled, nothing is published and the queue is unchanged.  A
\* waiter never has a timer armed while it is out of the waitress, and a
\* waiter that is out of the waitress unsettled is never settled.
C19_Step ==
    \A w \in Waiters :
        /\ (Waiting(waitress, w) /\ ~Waiting(waitress', w) /\ wsettle'[w] = << >>) =>
              /\ waitress' = WaitressRemove(waitress, w)
              /\ wtimers' = wtimers \ {w}
              /\ wsettle' = wsettle
              /\ published' = published
              /\ UNCHANGED <<pending, timers, settlements, writes, emitted>>
        /\ (~Waiting(waitress, w) /\ wsettle[w] = << >>) => wsettle'[w] = << >>

C19_Disarmed ==
    \A w \in Waiters : w \in wtimers => Waiting(waitress, w)

C19_CancelDeregisters == [][C19_Step]_vars /\ []C19_Disarmed

\* the waiter of a failed exchange was cancelled unsettled, the waiter of
\* another exchange is still registered, and an indication was published since
C19_Witness ==
    \E x, y \in Exchanges :
        /\ xch[x].pc = "failed" /\ HasWaiter(x)
        /\ wsettle[xch[x].waiter] = << >>
        /\ HasWaiter(y) /\ Waiting(waitress, xch[y].waiter)
        /\ xch[y].waiter \in wtimers
        /\ published # << >>

\* ------------------------------------------------------------------ C20
\* the step calls reject on the promise of execute() call c, not from clear()
RejectedAlone(c) ==
    /\ Len(settlements'[c]) = Len(settlements[c]) + 1
    /\ settlements'[c][Len(settlements'[c])].kind \in {"timeout", "writeFailed"}

\* C20: failure isolation.  A step that rejects one pending command on its
\* timeout or write failure, that rejects one waiter on its timeout, or in
\* which one exchange throws (a rejected await, a non-zero confirm status)
\* leaves every other pending command registered, unsettled and with its
\* timer, every other waiter registered, unsettled and with its timer, and
\* every other exchange where it was.  Only stop(), through clear(), settles
\* more than one promise in a step.
C20_Step ==
    /\ \A c \in ExchCalls :
          RejectedAlone(c) =>
              /\ \A d \in ExchCalls \ {c} :
                    /\ settlements'[d] = settlements[d]
                    /\ InRegistry(d) => InReg(pending', d)
                    /\ d \in timers => d \in timers'
              /\ UNCHANGED <<waitress, wtimers, wsettle, xch>>
    /\ \A w \in Waiters :
          (wsettle'[w] # wsettle[w] /\ wsettle'[w][Len(wsettle'[w])].kind = "timeout") =>
              /\ \A v \in Waiters \ {w} :
                    /\ wsettle'[v] = wsettle[v]
                    /\ Waiting(waitress, v) => Waiting(waitress', v)
                    /\ v \in wtimers => v \in wtimers'
              /\ UNCHANGED <<pending, timers, settlements, xch>>
    /\ \A x \in Exchanges :
          (xch[x].pc # "failed" /\ xch'[x].pc = "failed") =>
              /\ \A y \in Exchanges \ {x} : xch'[y] = xch[y]
              /\ \A v \in Waiters \ {xch[x].waiter} :
                    /\ Waiting(waitress, v) => Waiting(waitress', v)
                    /\ v \in wtimers => v \in wtimers'
              /\ wsettle' = wsettle
              /\ UNCHANGED <<pending, timers, settlements>>
    /\ Cardinality({ c \in ExchCalls : settlements'[c] # settlements[c] }) >= 2
          => clears' = clears + 1

C20_FailureIsolation == [][C20_Step]_vars

\* one exchange failed on a timeout while the ack phase and the waiter of
\* another, begun before the timeout, are still pending
C20_Witness ==
    \E x, y \in Exchanges :
        /\ xch[x].pc = "failed" /\ xch[x].out.error = "timeout"
        /\ xch[y].pc = "ack" /\ InRegistry(xch[y].ackCall)
        /\ settlements[xch[y].ackCall] = << >> /\ xch[y].ackCall \in timers
        /\ HasWaiter(y) /\ Waiting(waitress, xch[y].waiter)
        /\ wsettle[xch[y].waiter] = << >>
        /\ xch[y].ackCall < xch[x].confCall

\* ======================================================= error messages
\* String.prototype.startsWith / endsWith
StartsWith(s, prefix) ==
    Len(s) >= Len(prefix) /\ SubSeq(s, 1, Len(prefix)) = prefix

EndsWith(s, suffix) ==
    Len(s) >= Len(suffix) /\ SubSeq(s, Len(s) - Len(suffix) + 1, Len(s)) = suffix

\* error.message of a failed port.write
PortErrors == { "EIO" }

\* (variant: the timeout error does not quote the command)
CommandTimeoutMessageNoCommand(command, timeoutMs) ==
    "Command timeout after " \o ToString(timeoutMs) \o "ms: "

\* `Command timeout after ${timeoutMs}ms: ${command}`
CommandTimeoutMessage(command, timeoutMs) ==
    "Command timeout after " \o ToString(timeoutMs) \o "ms: " \o command

\* 'Command queue cleared'
ClearedMessage == "Command queue cleared"

\* `Failed to write to port: ${error.message}`
WriteFailedMessage(portError) == "Failed to write to port: " \o portError

\* `ZCL command failed with status ${confResponse.status}`
StatusMessage(status) == "ZCL command failed with status " \o ToString(status)

\* 'Failed to send ZCL request'
NotSentMessage == "Failed to send ZCL request"

\* waitressTimeoutFormatter(matcher, timeout)
WaitressTimeoutFormatter(matcher, timeout) ==
    "Timeout - " \o ToString(matcher.address) \o " - " \o ToString(matcher.endpoint)
    \o " - " \o ToString(matcher.transactionSequenceNumber)
    \o " - " \o ToString(matcher.clusterID)
    \o " - " \o ToString(matcher.commandIdentifier)
    \o " after " \o ToString(timeout) \o "ms"

\* the message of the Error an execute() promise was rejected with
ErrorMessage(o, portError) ==
    CASE o.kind = "timeout"     -> CommandTimeoutMessage(o.command, o.timeoutMs)
      [] o.kind = "cleared"     -> ClearedMessage
      [] o.kind = "writeFailed" -> WriteFailedMessage(portError)

\* the call of execute() whose rejection exchange x rethrew
RejectedCall(x) == IF xch[x].confCall # 0 THEN xch[x].confCall ELSE xch[x].ackCall

\* the message of the Error the failed exchange x threw: the catch block
\* rethrows the error of the rejected await, the try block throws its own
ThrownMessage(x, portError) ==
    CASE xch[x].out.error = "status"          -> StatusMessage(xch[x].out.status)
      [] xch[x].out.error = "notSent"         -> NotSentMessage
      [] xch[x].out.error = "waitressTimeout" ->
             WaitressTimeoutFormatter(MatcherOf(x), xch[x].timeout)
      [] OTHER -> ErrorMessage(settlements[RejectedCall(x)][1], portError)

\* ------------------------------------------------------------------ C21
\* where the failed exchange x failed, from what happened to its calls
FailurePoint(x) ==
    LET a == settlements[xch[x].ackCall]
        c == IF xch[x].confCall = 0 THEN << >> ELSE settlements[xch[x].confCall]
    IN IF a[1].kind = "writeFailed" THEN "write"
       ELSE IF a[1].kind = "timeout" THEN "ack"
       ELSE IF a[1].kind = "cleared" THEN "cleared"
       ELSE IF c[1].kind = "timeout" THEN "confirm"
       ELSE IF c[1].kind = "cleared" THEN "cleared"
       ELSE IF c[1].msg.status # 0 THEN "status"
       ELSE "indication"

\* what a caller reads off the message of the failure alone: the two command
\* timeouts differ in the command they quote, which is empty in the confirm
\* phase only
PhaseOfMessage(message) ==
    IF StartsWith(message, "Failed to write to port: ") THEN "write"
    ELSE IF StartsWith(message, "Command timeout after ")
         THEN (IF EndsWith(message, "ms: ") THEN "confirm" ELSE "ack")
    ELSE IF StartsWith(message, "ZCL command failed with status ") THEN "status"
    ELSE IF StartsWith(message, "Timeout - ") THEN "indication"
    ELSE "cleared"

\* C21: the failure of a sendZclFrameToEndpoint exchange identifies the phase
\* that failed.  A write failure, an ack-phase timeout, a non-zero confirm
\* status, a confirm-phase timeout and an indication-phase timeout each
\* produce an error whose message alone tells which of the five it was.
C21_PhaseDistinguishable ==
    \A x \in Exchanges : \A portError \in PortErrors :
        xch[x].pc = "failed" =>
            PhaseOfMessage(ThrownMessage(x, portError)) = FailurePoint(x)

\* one exchange failed on its ack-phase timeout, another on its
\* confirm-phase timeout
C21_Witness ==
    \E x, y \in Exchanges :
        /\ xch[x].pc = "failed" /\ FailurePoint(x) = "ack"
        /\ xch[y].pc = "failed" /\ FailurePoint(y) = "confirm"
        /\ ThrownMessage(x, "EIO") # ThrownMessage(y, "EIO")

\* ------------------------------------------------------------------ C28
\* the command and the timeout the exchange awaiting call c passed to execute
CallerCommand(c) ==
    IF \E x \in Exchanges : xch[x].ackCall = c THEN "cmd" ELSE ""

CallerTimeout(c) ==
    IF \E x \in Exchanges : xch[x].ackCall = c THEN DEFAULT_TIMEOUT
    ELSE LET x == CHOOSE x \in Exchanges : xch[x].confCall = c IN xch[x].timeout

\* the step runs the timeout callback of call c
TimesOut(c) ==
    /\ Len(settlements'[c]) = Len(settlements[c]) + 1
    /\ settlements'[c][Len(settlements'[c])].kind = "timeout"

\* C28: a dispatch timeout is reported to the caller of the command that
\* timed out and to nobody else.  The step that runs the timeout callback of
\* a call rejects that call's promise only, wakes the exchange awaiting it
\* only, emits nothing as 'rxMsg' or 'zclPayload', settles no waiter, and the
\* error it rejects with quotes the command text and the timeout that were
\* passed to that execute() call.
C28_Step ==
    \A c \in ExchCalls :
        TimesOut(c) =>
            /\ \A d \in ExchCalls \ {c} : settlements'[d] = settlements[d]
            /\ UNCHANGED <<emitted, published, wsettle>>
            /\ micro' = micro \o << AwaiterOfCall(c) >>
            /\ \A x \in Exchanges \ {AwaiterOfCall(c)} : xch'[x] = xch[x]
            /\ ErrorMessage(settlements'[c][Len(settlements'[c])], "")
                  = CommandTimeoutMessage(CallerCommand(c), CallerTimeout(c))

C28_TimeoutToCallerOnly == [][C28_Step]_vars

\* a confirm-phase call timed out with its own timeout while the ack-phase
\* call of another exchange stays pending and unsettled
C28_Witness ==
    \E c, d \in ExchCalls :
        /\ Outcome(c) = "timeout"
        /\ exec[c].command = "" /\ exec[c].timeoutMs # DEFAULT_TIMEOUT
        /\ InRegistry(d) /\ settlements[d] = << >> /\ d \in timers
        /\ d < c

\* ------------------------------------------------------------------ C29
MESSAGE_TERMINATOR == "\r"

\* send(command): `const data = command + MESSAGE_TERMINATOR`
WriteData(command) == command \o MESSAGE_TERMINATOR

\* the step makes an execute() call
Dispatches == issued' # issued

\* the step makes exactly one registration, that of the call it makes
RegistersOnce ==
    /\ issued' = issued + 1
    /\ Len(pending') = Len(pending) + 1
    /\ ~InReg(pending, issued') /\ InReg(pending', issued')

\* C29 as stated: every execute() call issues exactly one transport write,
\* paired with exactly one registration.
C29_Stated ==
    Dispatches => RegistersOnce /\ writes'[issued'] = "inflight"

C29_OneWritePerDispatch == [][C29_Stated]_vars

\* C29, amended: every execute() call makes exactly one registration.  A call
\* with a non-empty command issues exactly one transport write, of the
\* command followed by the terminator, in the same step; a call with an empty
\* command, as the confirm phase of an exchange makes, writes nothing.  No
\* other step starts a write.
C29_Step ==
    /\ Dispatches =>
          /\ RegistersOnce
          /\ writes[issued'] = "none"
          /\ writes'[issued'] = (IF exec'[issued'].command # "" THEN "inflight" ELSE "none")
          /\ exec'[issued'].command # "" =>
                /\ WriteData(exec'[issued'].command) = "cmd\r"
                /\ EndsWith(WriteData(exec'[issued'].command), MESSAGE_TERMINATOR)
          /\ \A d \in ExchCalls \ {issued'} : writes'[d] = writes[d]
    /\ \A c \in ExchCalls :
          (writes'[c] = "inflight" /\ writes[c] # "inflight") =>
              Dispatches /\ c = issued'

C29_OneWritePerCommand == [][C29_Step]_vars

\* a confirm-phase call is registered and has written nothing, after the
\* ack-phase call of the same exchange wrote its command
C29_Witness ==
    \E x \in Exchanges :
        /\ xch[x].pc = "conf" /\ InRegistry(xch[x].confCall)
        /\ writes[xch[x].confCall] = "none"
        /\ exec[xch[x].confCall].command = ""
        /\ writes[xch[x].ackCall] = "inflight"
        /\ exec[xch[x].ackCall].command = "cmd"

\* ------------------------------------------------------------------ C30
\* the step is stop()
Stops == clears' = clears + 1

\* exchange x is suspended on an await
Suspended(x) == xch[x].pc \in {"ack", "conf", "ind"}

\* in the step the promise exchange x awaits is rejected with the 'cleared'
\* failure and the continuation of x is queued
ReceivesCleared(x) ==
    /\ \E i \in 1..Len(micro') : micro'[i] = x
    /\ CASE xch[x].pc = "ack"  ->
              settlements'[xch[x].ackCall] = << Cleared >>
         [] xch[x].pc = "conf" ->
              settlements'[xch[x].confCall] = << Cleared >>
         [] xch[x].pc = "ind"  ->
              /\ wsettle'[xch[x].waiter] # << >>
              /\ wsettle'[xch[x].waiter][1].kind = "cleared"

\* C30: on stop(), every caller suspended in a phase of sendZclFrameToEndpoint
\* (ack, confirm or indication) has the promise it awaits rejected with the
\* 'cleared' failure in that step, and the primary registry is empty when the
\* step ends, which is before the transport is closed.
C30_Step ==
    Stops =>
        /\ pending' = << >>
        /\ timers' = {}
        /\ \A x \in Exchanges : Suspended(x) => ReceivesCleared(x)

C30_StopClearsEveryCaller == [][C30_Step]_vars

\* ===================================================== sequence counter
\* (variant: the counter is kept modulo 2)
NextSequenceWrap ==
    /\ sequenceNumber' = (sequenceNumber + 1) % 2
    /\ UNCHANGED qvars

\* nextSequence(): `return ++this.sequenceNumber`; the call returns the value
\* the counter has after the step
NextSequence ==
    /\ sequenceNumber' = sequenceNumber + 1
    /\ UNCHANGED qvars

\* calls made and lines handled so far, nextSequence() calls included
SeqEvents == issued + rx.n + clears + sequenceNumber

\* The CommandQueue with its sequence counter: every method of the class and
\* every callback it registers.
SeqNext ==
    \/ SeqEvents < MaxSeqEvents /\ NextSequence /\ UNCHANGED <<avars, dvars, zdo>>
    \/ /\ SeqEvents < MaxSeqEvents
       /\ \E command \in CommandChoices, matcher \in MatcherChoices, t \in TimeoutChoices :
             Execute(command, matcher, t) /\ UNCHANGED <<avars, sequenceNumber, dvars, zdo>>
    \/ \E c \in Calls : TimerFire(c) /\ UNCHANGED <<avars, sequenceNumber, dvars, zdo>>
    \/ \E c \in Calls : WriteOk(c) /\ UNCHANGED <<avars, sequenceNumber, dvars, zdo>>
    \/ \E c \in Calls : WriteFail(c) /\ UNCHANGED <<avars, sequenceNumber, dvars, zdo>>
    \/ /\ SeqEvents < MaxSeqEvents
       /\ \E m \in Messages : HandleMessage(m) /\ UNCHANGED <<avars, sequenceNumber, dvars, zdo>>
    \/ SeqEvents < MaxSeqEvents /\ Clear /\ UNCHANGED <<avars, sequenceNumber, dvars, zdo>>

SeqSpec == Init /\ [][SeqNext]_vars

\* ------------------------------------------------------------------ C27
\* the value the nextSequence() call of the step returns
SequenceReturned == sequenceNumber'

\* C27: the sequence counter is 0 at construction; a nextSequence() call
\* returns one more than the counter was, which is one more than the previous
\* call returned; no other step (execute, a timer or write callback,
\* handleMessage, clear()) changes the counter, so it never decreases and no
\* two calls return the same value.
C27_Step ==
    /\ sequenceNumber' >= sequenceNumber
    /\ sequenceNumber' # sequenceNumber =>
          /\ SequenceReturned = sequenceNumber + 1
          /\ UNCHANGED <<pending, issued, clears, rx, settlements>>
    /\ (clears' # clears \/ issued' # issued \/ rx' # rx \/ settlements' # settlements)
          => sequenceNumber' = sequenceNumber

C27_Monotonic == [][C27_Step]_vars /\ [](sequenceNumber >= 0)

\* the counter stands at 2 or more in a run in which clear() rejected a
\* pending command
C27_Witness ==
    /\ sequenceNumber >= 2
    /\ clears > 0
    /\ \E c \in Calls : Outcome(c) = "cleared"

\* ============================================================== decoder
\* MessageParser.parse on JavaScript strings.  The lines of a run hold no
\* white space and no number beyond 2^53, so parseInt neither skips white
\* space nor rounds.

\* what stands for `undefined` where the code reads a string, and for NaN
\* where it reads a number: values no line of a run yields
UndefinedString == "<undefined>"
NaN == -999999999

\* the i-th character of s
Char(s, i) == SubSeq(s, i, i)

UpperCaseLetters == "ABCDEFGHIJKLMNOPQRSTUVWXYZ"
LowerCaseLetters == "abcdefghijklmnopqrstuvwxyz"

LowerChar(c) ==
    IF \E k \in 1..Len(UpperCaseLetters) : Char(UpperCaseLetters, k) = c
    THEN Char(LowerCaseLetters, CHOOSE k \in 1..Len(UpperCaseLetters) : Char(UpperCaseLetters, k) = c)
    ELSE c

\* String.prototype.toLowerCase
RECURSIVE ToLowerCase(_)
ToLowerCase(s) ==
    IF s = "" THEN "" ELSE LowerChar(Head(s)) \o ToLowerCase(Tail(s))

\* the value of a digit, Len(Digits) for a character that is none
Digits == "0123456789abcdef"

DigitValue(c) ==
    LET l == LowerChar(c)
    IN IF \E k \in 1..Len(Digits) : Char(Digits, k) = l
       THEN (CHOOSE k \in 1..Len(Digits) : Char(Digits, k) = l) - 1
       ELSE Len(Digits)

\* the number the longest run of digits at the start of s denotes, after acc
RECURSIVE ParseDigits(_, _, _)
ParseDigits(s, radix, acc) ==
    IF s # "" /\ DigitValue(Head(s)) < radix
    THEN ParseDigits(Tail(s), radix, acc * radix + DigitValue(Head(s)))
    ELSE acc

\* parseInt(string, radix), radix 0 for a call without radix: an optional
\* sign, an optional 0x when the radix is 16 or not given, then the longest
\* run of digits; NaN when there is no digit
ParseIntRadix(string, radix) ==
    LET neg == string # "" /\ Head(string) = "-"
        s1  == IF string # "" /\ Head(string) \in {"+", "-"} THEN Tail(string) ELSE string
        hex == radix \in {0, 16} /\ Len(s1) >= 2 /\ ToLowerCase(SubSeq(s1, 1, 2)) = "0x"
        s2  == IF hex THEN SubSeq(s1, 3, Len(s1)) ELSE s1
        r   == IF hex THEN 16 ELSE IF radix = 0 THEN 10 ELSE radix
    IN IF s2 = "" \/ DigitValue(Head(s2)) >= r THEN NaN
       ELSE IF neg THEN 0 - ParseDigits(s2, r, 0) ELSE ParseDigits(s2, r, 0)

\* parseInt(string)
ParseInt(string) == ParseIntRadix(string, 0)

\* a + b on numbers that may be NaN
Plus(a, b) == IF a = NaN \/ b = NaN THEN NaN ELSE a + b

\* n & 0x03
BitAnd3(n) == IF n = NaN THEN 0 ELSE n % 4

\* s.includes(t) and the index of the first occurrence of t in s (0: none)
RECURSIVE IndexFrom(_, _, _)
IndexFrom(s, t, i) ==
    IF i + Len(t) - 1 > Len(s) THEN 0
    ELSE IF SubSeq(s, i, i + Len(t) - 1) = t THEN i
    ELSE IndexFrom(s, t, i + 1)

IndexOf(s, t) == IndexFrom(s, t, 1)

Includes(s, t) == IndexOf(s, t) # 0

\* s.split(','): the fields between the commas of s, from index start on
RECURSIVE SplitFrom(_, _)
SplitFrom(s, start) ==
    LET i == IndexFrom(s, ",", start)
    IN IF i = 0 THEN << SubSeq(s, start, Len(s)) >>
       ELSE << SubSeq(s, start, i - 1) >> \o SplitFrom(s, i + 1)

Split(s) == SplitFrom(s, 1)

\* message.slice(1, -1)
SliceInner(message) ==
    IF Len(message) < 3 THEN "" ELSE SubSeq(message, 2, Len(message) - 1)

\* parts[k], undefined outside the array
Part(parts, k) ==
    IF k \in 0..(Len(parts) - 1) THEN parts[k + 1] ELSE UndefinedString

\* Array.prototype.slice(start, end): NaN counts as 0, a negative index counts
\* from the end, an index beyond the end is the end
RelativeIndex(k, len) ==
    IF k = NaN THEN 0
    ELSE IF k < 0 THEN (IF len + k < 0 THEN 0 ELSE len + k)
    ELSE IF k > len THEN len ELSE k

ArraySlice(parts, start, end) ==
    LET a == RelativeIndex(start, Len(parts))
        b == RelativeIndex(end, Len(parts))
    IN IF a < b THEN SubSeq(parts, a + 1, b) ELSE << >>

\* parts.map((p) => parseInt(p))
MapParseInt(parts) == [i \in 1..Len(parts) |-> ParseInt(parts[i])]

\* s.replace(/:/g, '')
RECURSIVE RemoveColons(_)
RemoveColons(s) ==
    IF s = "" THEN ""
    ELSE (IF Head(s) = ":" THEN "" ELSE Head(s)) \o RemoveColons(Tail(s))

\* s.replace(t, ''): the first occurrence of t is taken out
RemoveFirst(s, t) ==
    LET i == IndexOf(s, t)
    IN IF i = 0 THEN s
       ELSE SubSeq(s, 1, i - 1) \o SubSeq(s, i + Len(t), Len(s))

\* ---------------------------------------------------- regular expressions
\* The patterns of the parser are sequences of literals, compared without
\* regard to case (flag i), and of groups ([class]+).  Every group is followed
\* by a character outside its class or ends the pattern, so the longest run
\* is the only one that can match.
Lit(text)  == [kind |-> "lit", text |-> text]
Group(cls) == [kind |-> "group", text |-> cls]

\* [0-9A-F], [0-9A-F:] and \d
InClass(c, cls) ==
    CASE cls = "hex"      -> DigitValue(c) < 16
      [] cls = "hexcolon" -> DigitValue(c) < 16 \/ c = ":"
      [] cls = "dec"      -> DigitValue(c) < 10

\* the index of the last character of the run of cls that starts at i
RECURSIVE RunEnd(_, _, _)
RunEnd(s, i, cls) ==
    IF i <= Len(s) /\ InClass(Char(s, i), cls) THEN RunEnd(s, i + 1, cls) ELSE i - 1

NoMatch == [found |-> FALSE, groups |-> << >>]

\* the pattern matched at index i of s
RECURSIVE MatchAt(_, _, _, _)
MatchAt(s, i, pattern, groups) ==
    IF pattern = << >> THEN [found |-> TRUE, groups |-> groups]
    ELSE LET item == Head(pattern)
         IN IF item.kind = "lit"
            THEN IF /\ i + Len(item.text) - 1 <= Len(s)
                    /\ ToLowerCase(SubSeq(s, i, i + Len(item.text) - 1)) = item.text
                 THEN MatchAt(s, i + Len(item.text), Tail(pattern), groups)
                 ELSE NoMatch
            ELSE LET e == RunEnd(s, i, item.text)
                 IN IF e >= i
                    THEN MatchAt(s, e + 1, Tail(pattern), Append(groups, SubSeq(s, i, e)))
                    ELSE NoMatch

\* s.match(pattern): the leftmost match (found FALSE: null)
RECURSIVE MatchFrom(_, _, _)
MatchFrom(s, i, pattern) ==
    IF i > Len(s) THEN NoMatch
    ELSE LET m == MatchAt(s, i, pattern, << >>)
         IN IF m.found THEN m ELSE MatchFrom(s, i + 1, pattern)

Match(s, pattern) == MatchFrom(s, 1, pattern)

\* /S=0x([0-9A-F]+)/i
ShortAddrPattern == << Lit("s=0x"), Group("hex") >>
\* /L=([0-9A-F:]+)/i
LongAddrPattern == << Lit("l="), Group("hexcolon") >>
\* (variant: any endpoint may follow the short address, as in the pattern of
\* the ZCL indication)
AnnouncePatternAnyEndpoint ==
    << Lit("s=0x"), Group("hex"), Lit("."), Group("dec"), Lit(",l="), Group("hexcolon"),
       Lit(","), Group("dec") >>

\* /S=0x([0-9A-F]+)\.0,L=([0-9A-F:]+),(\d+)/i
AnnouncePattern ==
    << Lit("s=0x"), Group("hex"), Lit(".0,l="), Group("hexcolon"), Lit(","), Group("dec") >>
\* /S=0x([0-9A-F]+)\.(\d+),S=0x([0-9A-F]+)\.(\d+),(\d+),([0-9A-F]+)/i
ZclIndPattern ==
    << Lit("s=0x"), Group("hex"), Lit("."), Group("dec"), Lit(",s=0x"), Group("hex"),
       Lit("."), Group("dec"), Lit(","), Group("dec"), Lit(","), Group("hex") >>

\* ------------------------------------------------------ MESSAGE_PREFIXES
TH_READY                == "[TH,Ready"
TH_GET_SW_VERSION       == "[TH,GetSwVersion"
CONNECTION_GET_ADDRESS  == "[Connection,GetAddress"
BRIDGE_NETWORK_SETTINGS == "[Bridge,NetworkSettings"
ZDP_JOIN_PERMITTED      == "[Zdp,JoinPermitted"
ZDP_DEVICE_ANNOUNCE     == "[Zdp,ReceivedDeviceAnnounce"
ZDP_NODE_DESC_RSP       == "[Zdp,ReceivedNodeDescRsp"
ZDP_ACTIVE_EP_RSP       == "[Zdp,ReceivedActiveEndPointRsp"
ZDP_SIMPLE_DESC_RSP     == "[Zdp,ReceivedSimpleDescRsp"
ZDP_MGMT_LQI_RSP        == "[Zdp,ReceivedMgmtLqiRsp"
ZDP_IEEE_ADDR_RSP       == "[Zdp,ReceivedIeeeAddrRsp"
ZCL_IND                 == "[Zcl,Ind"
ZCL_CONF                == "[Zcl,Conf"
ZCL_REQ                 == "[Zcl,Req"
TOUCHLINK               == "[Link,Touchlink"
\* the literal of the activeEpReq branch
ZDP_ACTIVE_EP_REQ       == "[Zdp,SendActiveEndPointReq,"

\* the prefixes parse tests, in the order it tests them
Prefixes ==
    << TH_READY, TH_GET_SW_VERSION, CONNECTION_GET_ADDRESS, ZDP_DEVICE_ANNOUNCE,
       ZDP_NODE_DESC_RSP, ZDP_ACTIVE_EP_RSP, ZDP_ACTIVE_EP_REQ, ZDP_SIMPLE_DESC_RSP,
       ZCL_IND, ZCL_CONF, ZCL_REQ, ZDP_JOIN_PERMITTED, BRIDGE_NETWORK_SETTINGS,
       ZDP_MGMT_LQI_RSP, TOUCHLINK, ZDP_IEEE_ADDR_RSP >>

\* ------------------------------------------------------------ extractors
\* a property of undefined or of null is read: the call throws a TypeError
TypeError == [type |-> "TypeError"]

\* message.slice(1, -1).split(',')
PartsOf(message) == Split(SliceInner(message))

\* addrMatch ? parseInt(addrMatch[1], 16) : 0
AddrOrZero(m) == IF m.found THEN ParseIntRadix(m.groups[1], 16) ELSE 0

Ready == [type |-> "ready"]

Version(message) ==
    LET parts == PartsOf(message)
    IN [type |-> "version", status |-> ParseInt(Part(parts, 2)), name |-> Part(parts, 3),
        keyBitmask |-> Part(parts, 4), version |-> Part(parts, 5)]

Address(message) ==
    LET ieeeMatch == Match(message, LongAddrPattern)
        addrMatch == Match(message, ShortAddrPattern)
        parts     == PartsOf(message)
    IN [type |-> "address", status |-> ParseInt(Part(parts, 2)),
        ieee |-> IF ieeeMatch.found
                 THEN "0x" \o ToLowerCase(RemoveColons(ieeeMatch.groups[1])) ELSE "",
        networkAddress |-> AddrOrZero(addrMatch)]

\* (variant: the address keeps the case of the line)
DeviceAnnounceKeepCase(match) ==
    [type |-> "deviceAnnounce", networkAddress |-> ParseIntRadix(match.groups[1], 16),
     ieee |-> "0x" \o RemoveColons(match.groups[2]),
     capability |-> ParseInt(match.groups[3])]

DeviceAnnounce(match) ==
    [type |-> "deviceAnnounce", networkAddress |-> ParseIntRadix(match.groups[1], 16),
     ieee |-> "0x" \o ToLowerCase(RemoveColons(match.groups[2])),
     capability |-> ParseInt(match.groups[3])]

NodeDescRsp(message) ==
    LET parts == PartsOf(message)
    IN IF Part(parts, 3) = UndefinedString THEN TypeError
       ELSE [type |-> "nodeDescRsp", seq |-> ParseInt(Part(parts, 2)),
             networkAddress |-> AddrOrZero(Match(Part(parts, 3), ShortAddrPattern)),
             status |-> ParseInt(Part(parts, 4)),
             data |-> [logicalType |-> ParseInt(Part(parts, 6)),
                       capability |-> ParseInt(Part(parts, 12)),
                       manufacturerCode |-> ParseInt(Part(parts, 13)),
                       maxBufferSize |-> ParseInt(Part(parts, 14)),
                       maxTransferSize |-> ParseInt(Part(parts, 15))]]

\* (variant: the endpoints are read from the count field on)
ActiveEpRspFromCount(message) ==
    LET parts == PartsOf(message)
        count == ParseInt(Part(parts, 6))
    IN IF Part(parts, 3) = UndefinedString THEN TypeError
       ELSE [type |-> "activeEpRsp", seq |-> ParseInt(Part(parts, 2)),
             networkAddress |-> AddrOrZero(Match(Part(parts, 3), ShortAddrPattern)),
             status |-> ParseInt(Part(parts, 4)),
             endpoints |-> MapParseInt(ArraySlice(parts, 6, Plus(6, count)))]

ActiveEpRsp(message) ==
    LET parts == PartsOf(message)
        count == ParseInt(Part(parts, 6))
    IN IF Part(parts, 3) = UndefinedString THEN TypeError
       ELSE [type |-> "activeEpRsp", seq |-> ParseInt(Part(parts, 2)),
             networkAddress |-> AddrOrZero(Match(Part(parts, 3), ShortAddrPattern)),
             status |-> ParseInt(Part(parts, 4)),
             endpoints |-> MapParseInt(ArraySlice(parts, 7, Plus(7, count)))]

ActiveEpReq(message) ==
    LET parts == PartsOf(message)
    IN [type |-> "activeEpReq", seq |-> ParseInt(Part(parts, 3)),
        endpoint |-> ParseInt(Part(parts, 2))]

SimpleDescRsp(message) ==
    LET parts           == PartsOf(message)
        inClusterCount  == ParseInt(Part(parts, 12))
        outClusterCount == ParseInt(Part(parts, Plus(13, inClusterCount)))
    IN IF Part(parts, 3) = UndefinedString THEN TypeError
       ELSE [type |-> "simpleDescRsp", seq |-> ParseInt(Part(parts, 2)),
             networkAddress |-> AddrOrZero(Match(Part(parts, 3), ShortAddrPattern)),
             status |-> ParseInt(Part(parts, 4)),
             data |-> [endpoint |-> ParseInt(Part(parts, 7)),
                       profileId |-> ParseInt(Part(parts, 8)),
                       deviceId |-> ParseInt(Part(parts, 9)),
                       inputClusters |->
                           MapParseInt(ArraySlice(parts, 13, Plus(13, inClusterCount))),
                       outputClusters |->
                           MapParseInt(ArraySlice(parts, Plus(14, inClusterCount),
                                           Plus(Plus(14, inClusterCount), outClusterCount))),
                       length |-> ParseInt(Part(parts, 6)),
                       deviceVersion |-> ParseInt(Part(parts, 10))]]

ZclIndication(match) ==
    [type |-> "zclInd",
     source |-> [address |-> ParseIntRadix(match.groups[1], 16),
                 endpoint |-> ParseInt(match.groups[2])],
     dest |-> [address |-> ParseIntRadix(match.groups[3], 16),
               endpoint |-> ParseInt(match.groups[4])],
     clusterId |-> ParseInt(match.groups[5]),
     payload |-> match.groups[6]]

ZclConf(message) ==
    LET parts == PartsOf(message)
    IN [type |-> "zclConf", endpoint |-> ParseInt(Part(parts, 2)),
        sequence |-> ParseInt(Part(parts, 3)), status |-> ParseInt(Part(parts, 4))]

ZclReq(message) ==
    LET parts == PartsOf(message)
    IN [type |-> "zclReq", status |-> ParseInt(Part(parts, 2)),
        sequence |-> ParseInt(Part(parts, 3))]

JoinPermitted(message) ==
    [type |-> "joinPermitted", permitted |-> Includes(message, "True")]

NetworkSettings(message) ==
    LET parts == PartsOf(message)
    IN [type |-> "networkSettings", factoryNew |-> (Part(parts, 2) = "True"),
        panId |-> ParseIntRadix(Part(parts, 3), 16), extendedPanId |-> Part(parts, 4),
        channel |-> ParseInt(Part(parts, 5)), nwkUpdateId |-> ParseInt(Part(parts, 6)),
        networkAddress |->
            IF Part(parts, 7) = UndefinedString THEN 0
            ELSE AddrOrZero(Match(Part(parts, 7), ShortAddrPattern))]

\* the width of one neighbour's group of fields, and the field the first starts at
NeighborWidth == 8
NeighborStart == 8

NeighborEntry(parts, offset) ==
    [extendedPanId |-> Part(parts, offset),
     ieeeAddr |-> ToLowerCase(RemoveColons(RemoveFirst(Part(parts, offset + 1), "L="))),
     networkAddress |-> ParseInt(Part(parts, offset + 2)),
     linkQuality |-> ParseInt(Part(parts, offset + 7)),
     depth |-> ParseInt(Part(parts, offset + 6)),
     permitJoin |-> ParseInt(Part(parts, offset + 5)),
     relationship |-> ParseInt(Part(parts, offset + 4)),
     rxOnWhenIdle |-> ParseInt(Part(parts, offset + 3)),
     deviceType |-> BitAnd3(ParseInt(Part(parts, offset + 3)))]

\* for (let i = 0; i < count; i++) { if (offset + 8 <= parts.length) {...; offset += 8} }
RECURSIVE Neighbors(_, _, _, _)
Neighbors(parts, i, count, offset) ==
    IF ~(i < count) THEN << >>
    ELSE IF offset + NeighborWidth <= Len(parts)
         THEN << NeighborEntry(parts, offset) >>
              \o Neighbors(parts, i + 1, count, offset + NeighborWidth)
         ELSE Neighbors(parts, i + 1, count, offset)

MgmtLqiRsp(message) ==
    LET parts == PartsOf(message)
    IN IF Part(parts, 3) = UndefinedString THEN TypeError
       ELSE [type |-> "mgmtLqiRsp", seq |-> ParseInt(Part(parts, 2)),
             srcAddr |-> AddrOrZero(Match(Part(parts, 3), ShortAddrPattern)),
             status |-> ParseInt(Part(parts, 4)),
             startIndex |-> ParseInt(Part(parts, 6)),
             neighborTableEntries |-> ParseInt(Part(parts, 5)),
             neighborTableList |->
                 Neighbors(parts, 0, ParseInt(Part(parts, 7)), NeighborStart)]

LinkTouchlink(message) ==
    LET parts == PartsOf(message)
    IN [type |-> "linkTouchlink", shortAddress |-> ParseIntRadix(Part(parts, 3), 16),
        endpoint |-> ParseInt(Part(parts, 4))]

ZdpIeeeAddrRsp(message) ==
    LET parts == PartsOf(message)
    IN IF \/ Part(parts, 3) = UndefinedString
          \/ Part(parts, 5) = UndefinedString
          \/ Part(parts, 6) = UndefinedString
          \/ ~Match(Part(parts, 3), ShortAddrPattern).found
          \/ ~Match(Part(parts, 6), ShortAddrPattern).found
       THEN TypeError
       ELSE [type |-> "zdpIeeeAddrRsp", seq |-> ParseInt(Part(parts, 2)),
             srcAddr |-> ParseIntRadix(Match(Part(parts, 3), ShortAddrPattern).groups[1], 16),
             status |-> ParseInt(Part(parts, 4)),
             ieeeAddr |-> ToLowerCase(RemoveColons(RemoveFirst(Part(parts, 5), "L="))),
             networkAddress |->
                 ParseIntRadix(Match(Part(parts, 6), ShortAddrPattern).groups[1], 16)]

\* (variant: raw is the line without its first and last character)
UnknownInner(message) == [type |-> "unknown", raw |-> SliceInner(message)]

Unknown(message) == [type |-> "unknown", raw |-> message]

\* ---------------------------------------------------------------- parse
\* MessageParser.parse(message): the first prefix the line starts with picks
\* the extractor; the device-announce and ZCL-indication branches return only
\* when their pattern matches, and the tests go on otherwise
parse(message) ==
    IF StartsWith(message, TH_READY) THEN Ready
    ELSE IF StartsWith(message, TH_GET_SW_VERSION) THEN Version(message)
    ELSE IF StartsWith(message, CONNECTION_GET_ADDRESS) THEN Address(message)
    ELSE IF /\ StartsWith(message, ZDP_DEVICE_ANNOUNCE)
            /\ Match(message, AnnouncePattern).found
         THEN DeviceAnnounce(Match(message, AnnouncePattern))
    ELSE IF StartsWith(message, ZDP_NODE_DESC_RSP) THEN NodeDescRsp(message)
    ELSE IF StartsWith(message, ZDP_ACTIVE_EP_RSP) THEN ActiveEpRsp(message)
    ELSE IF StartsWith(message, ZDP_ACTIVE_EP_REQ) THEN ActiveEpReq(message)
    ELSE IF StartsWith(message, ZDP_SIMPLE_DESC_RSP) THEN SimpleDescRsp(message)
    ELSE IF /\ StartsWith(message, ZCL_IND)
            /\ Match(message, ZclIndPattern).found
         THEN ZclIndication(Match(message, ZclIndPattern))
    ELSE IF StartsWith(message, ZCL_CONF) THEN ZclConf(message)
    ELSE IF StartsWith(message, ZCL_REQ) THEN ZclReq(message)
    ELSE IF StartsWith(message, ZDP_JOIN_PERMITTED) THEN JoinPermitted(message)
    ELSE IF StartsWith(message, BRIDGE_NETWORK_SETTINGS) THEN NetworkSettings(message)
    ELSE IF StartsWith(message, ZDP_MGMT_LQI_RSP) THEN MgmtLqiRsp(message)
    ELSE IF StartsWith(message, TOUCHLINK) THEN LinkTouchlink(message)
    ELSE IF StartsWith(message, ZDP_IEEE_ADDR_RSP) THEN ZdpIeeeAddrRsp(message)
    ELSE Unknown(message)

\* ------------------------------------------------------ lines of a run
\* parts.join(',')
RECURSIVE Join(_)
Join(parts) ==
    IF Len(parts) = 1 THEN parts[1] ELSE parts[1] \o "," \o Join(Tail(parts))

\* the bracketed line cut off after each of its fields in turn
Truncations(message) ==
    LET parts == PartsOf(message)
    IN { "[" \o Join(SubSeq(parts, 1, k)) \o "]" : k \in 1..Len(parts) }

\* one line of every message the parser knows, as the bridge sends them
WellFormed ==
    { "[TH,Ready,0]",
      "[TH,GetSwVersion,0,ZigBeeBridgeHue-SAMR21-HueBridgeV2_1,0x0012,6.94.0.37486]",
      "[Connection,GetAddress,0,L=00:17:88:01:05:2D:0A:B1,S=0x0000.0]",
      "[Zdp,ReceivedDeviceAnnounce,S=0x0003.0,L=A4:C1:38:E3:B9:14:32:8B,128]",
      "[Zdp,ReceivedDeviceAnnounce,S=0x1A2b.0,L=00:17:88:01:0a:Bc:dE:f9,14]",
      "[Zdp,ReceivedNodeDescRsp,4,S=0x0002.0,128,3,7,True,True,4,0,22,1,38912,71,8192,1,0,2]",
      "[Zdp,ReceivedActiveEndPointRsp,97,S=0x0003.0,0,3,3,1,2,242]",
      "[Zdp,ReceivedActiveEndPointRsp,98,S=0x0004.0,0,4,1,11,12]",
      "[Zdp,SendActiveEndPointReq,0,1]",
      "[Zdp,ReceivedSimpleDescRsp,1,S=0x0001.0,0,1,12,242,41440,97,0,0,1,33,1,33]",
      "[Zcl,Ind,S=0x0003.1,S=0x0001.64,25,0139010015DB030201300011]",
      "[Zcl,Conf,64,21,0]",
      "[Zcl,Req,0,21]",
      "[Zdp,JoinPermitted,True]",
      "[Bridge,NetworkSettings,False,0xE783,7A:B3:74:CC:B3:23:0A:2A,15,0,S=0x0001]",
      "[Zdp,ReceivedMgmtLqiRsp,100,S=0x0003.0,0,5,0,2,E1,L=00:17:88:01:02:03:04:05,0x1234,1,2,255,1,200,E2,L=00:17:88:01:02:03:04:06,0x5678,2,3,0,4,100]",
      "[Zdp,ReceivedMgmtLqiRsp,101,S=0x0003.0,0,5,2,1,E3,L=00:17:88:01:02:03:04:07,0x1234,1,2,255,1,200,E4,L=08,0x9,2,3,0,4,100]",
      "[Link,Touchlink,success,S=0x0004,0x1201]",
      "[Zdp,ReceivedIeeeAddrRsp,2,S=0xDC81.0,0,L=00:15:8D:00:00:73:2D:27,S=0xDC81.0]" }

\* lines the bridge does not send: no prefix of the parser, a prefix of the
\* constants the parser does not test, fields that do not fit the pattern
Malformed ==
    { "", "garbage", "[LOG,hello]", "[Zcl,Ind,oops]", "[Zcl,Ind", "Zcl,Req,0,21]",
      "[zcl,req,0,21]", "[Zdp,ReceivedDeviceAnnounce,S=0x0003.1,L=A4:C1:38:E3:B9:14:32:8B,128]",
      "[Zdp,ReceivedIeeeAddrRsp,2,X,0,L=00:15,S=0xDC81.0]",
      "[Zdp,ReceivedActiveEndPointRsp,97,S=0x0003.0,0,3,x,1]" }

Lines == UNION { Truncations(l) : l \in WellFormed } \cup Malformed

\* a run delivers a line, then a whole line of either kind, then the first
\* once more
Feeds == { << l, m, l >> : l \in Lines, m \in WellFormed \cup Malformed }

\* ----------------------------------------------------------- ParseSpec
ParseInit ==
    /\ QueueInit(Calls)
    /\ AdapterInit
    /\ feed \in Feeds
    /\ decoded = << >>
    /\ ZdoIdle

\* (variant: the extractors keep the position the previous call's match ended
\* at, so a call that follows a call on another line finds no match)
ParseLineSticky ==
    /\ feed # << >>
    /\ decoded' = Append(decoded,
           [line |-> Head(feed),
            msg  |-> IF decoded # << >> /\ decoded[Len(decoded)].line # Head(feed)
                     THEN Unknown(Head(feed)) ELSE parse(Head(feed))])
    /\ feed' = Tail(feed)
    /\ UNCHANGED <<qvars, avars, sequenceNumber, zdo>>

\* the 'data' handler hands the next line to handleMessage, which calls
\* `MessageParser.parse(message)`
ParseLine ==
    /\ feed # << >>
    /\ decoded' = Append(decoded, [line |-> Head(feed), msg |-> parse(Head(feed))])
    /\ feed' = Tail(feed)
    /\ UNCHANGED <<qvars, avars, sequenceNumber, zdo>>

ParseNext == ParseLine

ParseSpec == ParseInit /\ [][ParseNext]_vars

\* the variants of ParsedMessage
Variants ==
    { "ready", "version", "address", "deviceAnnounce", "nodeDescRsp", "activeEpRsp",
      "activeEpReq", "simpleDescRsp", "zclInd", "zclConf", "zclReq", "joinPermitted",
      "networkSettings", "mgmtLqiRsp", "linkTouchlink", "zdpIeeeAddrRsp", "unknown" }

\* the calls of parse made so far
Parses == 1..Len(decoded)

\* ------------------------------------------------------------------ C22
\* C22: decoding is total -- every call of MessageParser.parse, on any line,
\* also one that starts with a recognized prefix and lacks the fields its
\* extractor reads, returns one variant of ParsedMessage and throws nothing.
C22_DecodingTotal == \A i \in Parses : decoded[i].msg.type \in Variants

\* ------------------------------------------------------------------ C23
\* C23: decoding is pure and deterministic -- two calls of MessageParser.parse
\* on the same line return equal messages whatever was parsed in between, and
\* a call changes neither the registry nor any other state of the driver.
C23_SameLineSameMessage ==
    \A i, j \in Parses : decoded[i].line = decoded[j].line => decoded[i].msg = decoded[j].msg

C23_Step == decoded' # decoded => UNCHANGED <<qvars, avars, sequenceNumber, zdo>>

RecognizedPrefix(line) == \E k \in 1..Len(Prefixes) : StartsWith(line, Prefixes[k])

C24_UnknownVerbatim ==
    \A i \in Parses :
        ~RecognizedPrefix(decoded[i].line) =>
            /\ decoded[i].msg.type = "unknown"
            /\ decoded[i].msg.raw = decoded[i].line

C24_Witness ==
    \E i \in Parses :
        /\ decoded[i].line = "garbage"
        /\ decoded[i].msg.type = "unknown"
        /\ decoded[i].msg.raw = "garbage"

\* ------------------------------------------------------------------ C25
\* C25: a well-formed device-announce line decodes to deviceAnnounce, with
\* networkAddress the hexadecimal number after S=0x, ieee "0x" followed by the
\* colon-separated address without its colons and in lower case, and
\* capability the decimal number of the last field; the line
\* [Zdp,ReceivedDeviceAnnounce,S=0x0003.0,L=A4:C1:38:E3:B9:14:32:8B,128]
\* yields networkAddress 3, ieee 0xa4c138e3b914328b, capability 128.
AnnounceLines == { l \in WellFormed : StartsWith(l, ZDP_DEVICE_ANNOUNCE) }

AnnounceExpected(line) ==
    CASE line = "[Zdp,ReceivedDeviceAnnounce,S=0x0003.0,L=A4:C1:38:E3:B9:14:32:8B,128]" ->
             [type |-> "deviceAnnounce", networkAddress |-> 3,
              ieee |-> "0xa4c138e3b914328b", capability |-> 128]
      [] line = "[Zdp,ReceivedDeviceAnnounce,S=0x1A2b.0,L=00:17:88:01:0a:Bc:dE:f9,14]" ->
             [type |-> "deviceAnnounce", networkAddress |-> 6699,
              ieee |-> "0x001788010abcdef9", capability |-> 14]

C25_DeviceAnnounce ==
    \A i \in Parses :
        LET line == decoded[i].line
            msg  == decoded[i].msg
        IN /\ line \in AnnounceLines => msg = AnnounceExpected(line)
           /\ msg.type = "deviceAnnounce" =>
                  /\ StartsWith(msg.ieee, "0x")
                  /\ ~Includes(msg.ieee, ":")
                  /\ ToLowerCase(msg.ieee) = msg.ieee
                  /\ msg.networkAddress >= 0
                  /\ msg.capability >= 0

C25_Witness ==
    \E i \in Parses :
        /\ decoded[i].line =
               "[Zdp,ReceivedDeviceAnnounce,S=0x0003.0,L=A4:C1:38:E3:B9:14:32:8B,128]"
        /\ decoded[i].msg.networkAddress = 3
        /\ decoded[i].msg.ieee = "0xa4c138e3b914328b"
        /\ decoded[i].msg.capability = 128

\* ------------------------------------------------------------------ C26
\* C26: a list-valued message holds as many elements as its count field
\* declares -- activeEpRsp the count endpoints after the count field,
\* mgmtLqiRsp one neighbour per declared group of 8 fields, entry i read from
\* the fields 8+8i .. 15+8i -- and, when the line holds fewer fields than
\* declared, the complete elements or groups it does hold, without an error.
Min(a, b) == IF a < b THEN a ELSE b

\* the count a line declares in field k, NaN when the field is missing
Declared(line, k) == ParseInt(Part(PartsOf(line), k))

\* the elements, or groups of width fields, a line holds from field k on
Held(line, k, width) ==
    LET n == Len(PartsOf(line)) - k
    IN IF n < 0 THEN 0 ELSE n \div width

C26_ActiveEp(line, msg) ==
    LET parts == PartsOf(line)
        count == Declared(line, 6)
    IN (StartsWith(line, ZDP_ACTIVE_EP_RSP) /\ count >= 0) =>
           /\ msg.type = "activeEpRsp"
           /\ Len(msg.endpoints) = Min(count, Held(line, 7, 1))
           /\ \A k \in 1..Len(msg.endpoints) :
                  msg.endpoints[k] = ParseInt(Part(parts, 6 + k))

C26_MgmtLqi(line, msg) ==
    LET parts == PartsOf(line)
        count == Declared(line, 7)
        list  == msg.neighborTableList
    IN (StartsWith(line, ZDP_MGMT_LQI_RSP) /\ count >= 0) =>
           /\ msg.type = "mgmtLqiRsp"
           /\ Len(list) = Min(count, Held(line, NeighborStart, NeighborWidth))
           /\ \A k \in 1..Len(list) :
                  LET first == NeighborStart + NeighborWidth * (k - 1)
                  IN /\ list[k].extendedPanId = Part(parts, first)
                     /\ "0x" \o list[k].ieeeAddr =
                            parse("[Connection,GetAddress,0," \o Part(parts, first + 1) \o "]").ieee
                     /\ list[k].networkAddress = ParseInt(Part(parts, first + 2))
                     /\ list[k].rxOnWhenIdle = ParseInt(Part(parts, first + 3))
                     /\ list[k].relationship = ParseInt(Part(parts, first + 4))
                     /\ list[k].permitJoin = ParseInt(Part(parts, first + 5))
                     /\ list[k].depth = ParseInt(Part(parts, first + 6))
                     /\ list[k].linkQuality = ParseInt(Part(parts, first + 7))

C26_CountedLists ==
    \A i \in Parses :
        /\ C26_ActiveEp(decoded[i].line, decoded[i].msg)
        /\ C26_MgmtLqi(decoded[i].line, decoded[i].msg)

C26_Witness ==
    \E i, j \in Parses :
        /\ decoded[i].msg.type = "mgmtLqiRsp"
        /\ Declared(decoded[i].line, 7) = 2
        /\ Len(decoded[i].msg.neighborTableList) = 1
        /\ decoded[i].msg.neighborTableList[1].extendedPanId = "E1"
        /\ decoded[j].msg.type = "activeEpRsp"
        /\ decoded[j].msg.endpoints = << 1, 2, 242 >>

\* ------------------------------------------------------------------ C38
\* the lines of a run that start with the device-announce or the
\* ZCL-indication prefix and are not a whole line of that kind: they lack a
\* field of the pattern, or the announce's short address ends in .1
Misfits ==
    { l \in Lines :
        /\ StartsWith(l, ZDP_DEVICE_ANNOUNCE) \/ StartsWith(l, ZCL_IND)
        /\ l \notin WellFormed }

\* C38: a line that starts with the device-announce or ZCL-indication prefix
\* and does not fit that extractor's pattern is decoded neither as
\* deviceAnnounce nor as zclInd and throws nothing: no later prefix test
\* accepts it, and parse returns unknown with the line as raw.
C38_FallsThrough ==
    \A i \in Parses :
        decoded[i].line \in Misfits =>
            /\ decoded[i].msg.type = "unknown"
            /\ decoded[i].msg.raw = decoded[i].line

C38_Witness ==
    /\ Len(decoded) >= 2
    /\ decoded[1].line = "[Zdp,ReceivedDeviceAnnounce,S=0x0003.1,L=A4:C1:38:E3:B9:14:32:8B,128]"
    /\ decoded[1].msg = Unknown(decoded[1].line)
    /\ decoded[2].line = "[Zcl,Ind,oops]"
    /\ decoded[2].msg = Unknown("[Zcl,Ind,oops]")

\* ------------------------------------------------------------------ C35
\* the deadline timers of the entries in the map
TimersOf(p) == { p[i].timeout : i \in 1..Len(p) }

\* every entry has a timer of its own, armed, and no other timer is armed
TimersMatchEntries ==
    /\ timers = TimersOf(pending)
    /\ \A i, j \in 1..Len(pending) : pending[i].timeout = pending[j].timeout => i = j

\* the step runs the timeout callback of call c
Fires(c) == c \in timers /\ settlements'[c] = Append(settlements[c], TimedOut(exec[c].command, exec[c].timeoutMs))

\* the step takes entries out of the map: their timers are disarmed with them
C35_Step ==
    /\ timers \ timers' = TimersOf(pending) \ TimersOf(pending')
    /\ \A c \in Calls : Fires(c) => settlements[c] = << >>

\* C35: in every state each entry of the pending map has exactly one armed
\* deadline timer and each armed deadline timer belongs to an entry of the
\* map; match, write failure, timeout and clear() disarm the timer of every
\* entry they remove, so no timer fires for a command that is settled.
C35_TimersAndRegistry == [][C35_Step]_vars /\ []TimersMatchEntries

C35_Witness ==
    \E c, d \in Calls :
        /\ writes[c] = "failed"
        /\ settlements[c] = << WriteFailed >>
        /\ c \notin timers
        /\ InRegistry(d)
        /\ timers = {d}

\* ------------------------------------------------------------------ C32
\* the write of call c has been issued
WriteStarted(c) == writes[c] # "none"

\* call c is registered with its deadline timer armed
Registered(c) == InRegistry(c) /\ c \in timers

\* the step issues the write of call c: when it ends, c is registered
C32_Step ==
    \A c \in Calls :
        /\ (~WriteStarted(c) /\ WriteStarted(c)') => Registered(c)'
        /\ (WriteStarted(c) /\ settlements[c] = << >> /\ rx'.n = rx.n + 1
               /\ Matches(exec[c].matcher, rx'.msg)) =>
              /\ rx'.by # 0
              /\ rx'.by <= c
              /\ (\A d \in Calls : (d < c /\ InRegistry(d)) => ~Matches(exec[d].matcher, rx'.msg))
                     => rx'.by = c

\* a call whose write was issued and that is not settled is registered
C32_Registered ==
    \A c \in Calls : (WriteStarted(c) /\ settlements[c] = << >>) => Registered(c)

\* C32: execute inserts the pending command into the registry, its timer
\* armed, before it issues the transport write, so from the moment the write
\* has started until the command is settled a reply its matcher accepts finds
\* it in the registry: the reply is consumed, by it or by an older entry.
C32_RegisteredBeforeWrite == [][C32_Step]_vars /\ []C32_Registered

C32_Witness ==
    \E c \in Calls :
        /\ writes[c] = "inflight"
        /\ rx.by = c
        /\ settlements[c] = << Resolved(rx.msg) >>

\* ============================================================== sendZdo
\* The clusters a run passes to sendZdo: one whose response has a type of
\* its own, one whose matcher is `() => true`, and one sendZdo has no case
\* for.  The lines COMMANDS builds are not empty; the template of each stands
\* for the line.
ZdoClusters == { "NODE_DESCRIPTOR_REQUEST", "BIND_REQUEST", "NOT_IMPLEMENTED" }

\* Of the payload sendZdo reads only what decides `command`: for a bind
\* request byte 12, the destination address mode (0x03 an IEEE address,
\* 0x01 a group, anything else builds no command).  The other clusters'
\* payloads decide nothing and are one value.  A run binds to an IEEE
\* address or with a mode that builds no command; a group goes the way of
\* an IEEE address.
ZdoPayloads(clusterId) == IF clusterId = "BIND_REQUEST" THEN { 2, 3 } ELSE { 0 }

\* `command` and `matcher` after the switch
ZdoCommand(clusterId, payload) ==
    CASE clusterId = "NODE_DESCRIPTOR_REQUEST" -> "ZDP_NODE_DESC_REQ"
      [] clusterId = "BIND_REQUEST"            ->
            IF payload = 3 THEN "ZDP_BIND_REQ ieee"
            ELSE IF payload = 1 THEN "ZDP_BIND_REQ group"
            ELSE ""
      [] OTHER                                 -> ""

ZdoMatcher(clusterId) ==
    CASE clusterId = "NODE_DESCRIPTOR_REQUEST" -> TypeMatcher("nodeDescRsp")
      [] clusterId = "BIND_REQUEST"            -> AnyMatcher
      [] OTHER                                 -> NeverMatcher

\* the execute() calls of a run of sendZdo
ZdoCalls == 1..MaxZdoEvents

ZdoCall(clusterId, payload, disableResponse, call, write) ==
    [clusterId |-> clusterId, command |-> ZdoCommand(clusterId, payload),
     disableResponse |-> disableResponse, call |-> call, write |-> write]

\* (variant: disableResponse is not looked at, every command goes to execute)
SendZdoAlwaysExecute(clusterId, payload, disableResponse) ==
    /\ micro = << >>
    /\ sequenceNumber' = sequenceNumber + 1
    /\ QueueExecute(ZdoCommand(clusterId, payload), ZdoMatcher(clusterId), DEFAULT_TIMEOUT)
    /\ zdo' = Append(zdo, ZdoCall(clusterId, payload, disableResponse, issued + 1, "none"))
    /\ UNCHANGED <<avars, dvars>>

\* (variant: without a command nothing is dispatched and the call returns)
SendZdoSkipEmpty(clusterId, payload, disableResponse) ==
    /\ micro = << >>
    /\ sequenceNumber' = sequenceNumber + 1
    /\ IF ZdoCommand(clusterId, payload) = ""
       THEN /\ zdo' = Append(zdo, ZdoCall(clusterId, payload, disableResponse, 0, "none"))
            /\ UNCHANGED qvars
       ELSE IF disableResponse
       THEN /\ zdo' = Append(zdo, ZdoCall(clusterId, payload, disableResponse, 0, "inflight"))
            /\ UNCHANGED qvars
       ELSE /\ QueueExecute(ZdoCommand(clusterId, payload), ZdoMatcher(clusterId), DEFAULT_TIMEOUT)
            /\ zdo' = Append(zdo, ZdoCall(clusterId, payload, disableResponse, issued + 1, "none"))
    /\ UNCHANGED <<avars, dvars>>

\* sendZdo(ieeeAddress, networkAddress, clusterId, payload, disableResponse),
\* up to its await: `disableResponse && command` sends the command with
\* queue.send, anything else goes to queue.execute.  What follows the await
\* builds the return value from the response and changes no state.
SendZdo(clusterId, payload, disableResponse) ==
    /\ micro = << >>
    /\ sequenceNumber' = sequenceNumber + 1
    /\ IF disableResponse /\ ZdoCommand(clusterId, payload) # ""
       THEN /\ zdo' = Append(zdo, ZdoCall(clusterId, payload, disableResponse, 0, "inflight"))
            /\ UNCHANGED qvars
       ELSE /\ QueueExecute(ZdoCommand(clusterId, payload), ZdoMatcher(clusterId), DEFAULT_TIMEOUT)
            /\ zdo' = Append(zdo, ZdoCall(clusterId, payload, disableResponse, issued + 1, "none"))
    /\ UNCHANGED <<avars, dvars>>

\* port.write of a command sent with queue.send calls back: send() resolves
\* and sendZdo returns, or send() rejects and sendZdo throws
SendDone(z, error) ==
    /\ micro = << >>
    /\ z \in 1..Len(zdo)
    /\ zdo[z].write = "inflight"
    /\ zdo' = [zdo EXCEPT ![z].write = IF error THEN "failed" ELSE "ok"]
    /\ UNCHANGED <<qvars, avars, sequenceNumber, dvars>>

\* The lines the bridge sends in a run of sendZdo: the response of the node
\* descriptor request, an ack that carries a non-zero status, the confirm of
\* its sequence and the indication answering the first frame.
ZdoMessages ==
    { Msg("nodeDescRsp", 0, 0), Msg("zclReq", 1, 1), Msg("zclConf", 1, 0),
      ZclInd(Device, Endpoint, Cluster, 1, ResponseId) }

\* timers fired, writes failed and write callbacks of queue.send so far
ZdoFaults ==
    Cardinality({ c \in ZdoCalls : \E i \in 1..Len(settlements[c]) :
                     settlements[c][i].kind \in {"timeout", "writeFailed"} })
    + Cardinality({ w \in Exchanges : wsettle[w] # << >> /\ wsettle[w][1].kind = "timeout" })
    + Cardinality({ z \in 1..Len(zdo) : zdo[z].write \in {"ok", "failed"} })

\* calls made and events handled so far
ZdoEvents == Len(zdo) + Started + rx.n + clears + ZdoFaults

ZdoInit == QueueInit(ZdoCalls) /\ AdapterInit /\ DecoderIdle /\ ZdoIdle

\* The adapter with sendZdo.
ZdoNext ==
    \/ /\ ZdoEvents < MaxZdoEvents
       /\ \E clusterId \in ZdoClusters, disableResponse \in BOOLEAN :
             \E payload \in ZdoPayloads(clusterId) :
                SendZdo(clusterId, payload, disableResponse)
    \/ /\ ZdoEvents < MaxZdoEvents
       /\ \E z \in 1..MaxZdoEvents, error \in BOOLEAN : SendDone(z, error)
    \/ /\ micro = << >> /\ Started < MaxZdoExch /\ ZdoEvents < MaxZdoEvents
       /\ \E disableResponse \in BOOLEAN, timeout \in ExchTimeouts :
             SendZclFrameToEndpoint(disableResponse, ResponseId, FALSE, timeout)
       /\ UNCHANGED <<sequenceNumber, dvars, zdo>>
    \/ \E x \in Exchanges : Resume(x) /\ UNCHANGED <<sequenceNumber, dvars, zdo>>
    \/ ZdoEvents < MaxZdoEvents /\ \E m \in ZdoMessages : Receive(m)
       /\ UNCHANGED <<sequenceNumber, dvars, zdo>>
    \/ /\ micro = << >> /\ timers # {} /\ ZdoEvents < MaxZdoEvents
       /\ \E c \in ZdoCalls : TimerFire(c) /\ Wake(<< c >>)
       /\ UNCHANGED <<sequenceNumber, dvars, zdo>>
    \/ /\ micro = << >> /\ ZdoEvents < MaxZdoEvents
       /\ \E c \in ZdoCalls : WriteFail(c) /\ Wake(<< c >>)
       /\ UNCHANGED <<sequenceNumber, dvars, zdo>>
    \/ /\ wtimers # {} /\ ZdoEvents < MaxZdoEvents
       /\ \E w \in Exchanges : WaiterTimeout(w)
       /\ UNCHANGED <<sequenceNumber, dvars, zdo>>
    \/ ZdoEvents < MaxZdoEvents /\ Stop /\ UNCHANGED <<sequenceNumber, dvars, zdo>>

ZdoSpec == ZdoInit /\ [][ZdoNext]_vars

\* ------------------------------------------------------------------ C33
\* the step is the continuation of exchange x after its ack phase, the ack
\* call having been resolved
AckResumes(x) ==
    /\ xch[x].pc = "ack"
    /\ xch'[x].pc # "ack"
    /\ Outcome(xch[x].ackCall) = "resolved"

C33_Step ==
    \A x \in Exchanges :
        /\ AckResumes(x) =>
              LET ack == settlements[xch[x].ackCall][1].msg
              IN /\ xch'[x].pc = "conf"
                 /\ xch'[x].confCall = issued'
                 /\ exec'[issued'].matcher = ConfMatcher(ack.sequence)
                 /\ InReg(pending', issued')
        /\ (/\ xch[x].pc = "ack"
            /\ InRegistry(xch[x].ackCall)
            /\ rx'.n = rx.n + 1
            /\ rx'.msg.type = "zclReq"
            /\ \A i \in 1..Len(pending) :
                   (pending[i].c < xch[x].ackCall) => ~Matches(pending[i].matcher, rx'.msg))
           => settlements'[xch[x].ackCall] = << Resolved(rx'.msg) >>

\* an exchange whose ack was consumed did not fail in its ack phase
C33_NotFailedAtAck ==
    \A x \in Exchanges :
        (xch[x].ackCall # 0 /\ Outcome(xch[x].ackCall) = "resolved"
            /\ xch[x].pc \notin {"ack"}) => xch[x].confCall # 0

\* C33: the ack phase of sendZclFrameToEndpoint ends with the first zclReq
\* line offered to its pending command, whatever the status that line
\* carries: the call does not fail there, it registers the confirm phase with
\* a matcher keyed on the sequence of that ack.
C33_AckStatusIgnored == [][C33_Step]_vars /\ []C33_NotFailedAtAck

C33_Witness ==
    \E x \in Exchanges :
        /\ AckOf(x).type = "zclReq"
        /\ AckOf(x).status # 0
        /\ ConfOf(x) = Msg("zclConf", AckOf(x).sequence, 0)
        /\ xch[x].pc \in {"ind", "done"}

\* ------------------------------------------------------------------ C34
\* the first registered entry whose predicate is `() => true` (0: none)
FirstCatchAll ==
    IF \E i \in 1..Len(pending) : pending[i].matcher = AnyMatcher
    THEN CHOOSE i \in 1..Len(pending) :
            /\ pending[i].matcher = AnyMatcher
            /\ \A j \in 1..(i - 1) : pending[j].matcher # AnyMatcher
    ELSE 0

\* a line arrives that a registered waiter accepts
IndicationArrives ==
    /\ rx'.n = rx.n + 1
    /\ rx'.msg.type = "zclInd"
    /\ FirstWaiter(waitress, ZclPayload(rx'.msg)) # 0

C34_Step ==
    /\ (rx'.n = rx.n + 1 /\ rx'.by # 0) =>
           /\ UNCHANGED <<waitress, wtimers, wsettle, published, emitted>>
           /\ settlements'[rx'.by] = Append(settlements[rx'.by], Resolved(rx'.msg))
    /\ (IndicationArrives /\ FirstCatchAll # 0) =>
           /\ rx'.by = pending[FirstCatchAll].c
           /\ settlements'[rx'.by] = << Resolved(rx'.msg) >>
           /\ UNCHANGED <<waitress, wtimers, wsettle, published, emitted>>

\* C34: a line a pending command's predicate accepts is consumed by that
\* command and does not reach the waitress.  While a command with the
\* predicate `() => true` is registered, an indication that a registered
\* waiter accepts resolves that command; it is not published and the waiter
\* stays registered, unsettled, with its timer armed.
C34_CatchAllShadowsWaiter == [][C34_Step]_vars

C34_Witness ==
    /\ rx.msg.type = "zclInd"
    /\ rx.by # 0
    /\ exec[rx.by].matcher = AnyMatcher
    /\ settlements[rx.by] = << Resolved(rx.msg) >>
    /\ FirstWaiter(waitress, ZclPayload(rx.msg)) # 0
    /\ waitress[FirstWaiter(waitress, ZclPayload(rx.msg))].ID \in wtimers
    /\ published = << >>
    /\ emitted = << >>

\* ------------------------------------------------------------------ C36
\* the calls of sendZdo for a cluster the switch has no case for
Unimplemented == { z \in 1..Len(zdo) : zdo[z].clusterId = "NOT_IMPLEMENTED" }

NothingDispatched ==
    \A z \in Unimplemented :
        /\ zdo[z].call # 0
        /\ zdo[z].write = "none"
        /\ exec[zdo[z].call].command = ""
        /\ exec[zdo[z].call].matcher = NeverMatcher
        /\ writes[zdo[z].call] = "none"
        /\ Outcome(zdo[z].call) \in { "pending", "timeout", "cleared" }
        /\ InRegistry(zdo[z].call) <=> Outcome(zdo[z].call) = "pending"

C36_Step ==
    (rx'.n = rx.n + 1) => \A z \in Unimplemented : rx'.by # zdo[z].call

\* C36: sendZdo for a cluster without an implementation registers a pending
\* command with an empty command text and a predicate that accepts nothing:
\* nothing is written to the port for it, no arriving line is consumed by it,
\* and it ends only by its timeout or by clear().
C36_UnimplementedOnlyTimesOut == [][C36_Step]_vars /\ []NothingDispatched

C36_Witness ==
    \E z \in Unimplemented :
        /\ rx.n > 0
        /\ rx.by = 0
        /\ Outcome(zdo[z].call) = "timeout"
        /\ settlements[zdo[z].call] = << TimedOut("", DEFAULT_TIMEOUT) >>

\* ------------------------------------------------------------------ C37
\* the calls of sendZdo with disableResponse set for which the switch built
\* a command
FireAndForget ==
    { z \in 1..Len(zdo) : zdo[z].disableResponse /\ zdo[z].command # "" }

NothingRegistered ==
    \A z \in FireAndForget : zdo[z].call = 0 /\ zdo[z].write \in { "inflight", "ok", "failed" }

\* sendZdo is called with disableResponse set for a cluster with a command
SendsOnly ==
    /\ Len(zdo') = Len(zdo) + 1
    /\ zdo'[Len(zdo')].disableResponse
    /\ zdo'[Len(zdo')].command # ""

\* the write of a fire-and-forget call completes
WriteCompletes ==
    \E z \in FireAndForget : zdo[z].write = "inflight" /\ zdo'[z].write # "inflight"

C37_Step ==
    /\ SendsOnly =>
          /\ zdo'[Len(zdo')].write = "inflight"
          /\ UNCHANGED <<pending, exec, issued, timers, writes, settlements>>
    /\ WriteCompletes => UNCHANGED <<pending, exec, issued, timers, writes, settlements>>
    /\ \A z \in FireAndForget :
          zdo[z].write # "inflight" => zdo'[z].write = zdo[z].write
    /\ (rx'.n = rx.n + 1) =>
          IF \E i \in 1..Len(pending) : Matches(pending[i].matcher, rx'.msg)
          THEN /\ \E i \in 1..Len(pending) :
                     pending[i].c = rx'.by /\ Matches(pending[i].matcher, rx'.msg)
               /\ emitted' = emitted
          ELSE /\ rx'.by = 0
               /\ emitted' = Append(emitted, rx'.msg)

WriteFailures ==
    Cardinality({ c \in ExchCalls : \E i \in 1..Len(settlements[c]) :
                     settlements[c][i].kind = "writeFailed" })

\* the lines of a successful exchange, in any order and any number
LiveMessages ==
    { Msg("zclReq", 1, 0), Msg("zclConf", 1, 0),
      ZclInd(Device, Endpoint, Cluster, 1, ResponseId) }

LiveEvents == Started + rx.n + clears + WriteFailures

\* the event loop runs the next continuation
RunMicrotask ==
    \E x \in Exchanges : Resume(x) /\ UNCHANGED <<sequenceNumber, dvars, zdo>>

\* the deadline of call c passes
Deadline(c) ==
    /\ micro = << >>
    /\ TimerFire(c) /\ Wake(<< c >>)
    /\ UNCHANGED <<sequenceNumber, dvars, zdo>>

\* the deadline of waiter w passes
WaiterDeadline(w) ==
    WaiterTimeout(w) /\ UNCHANGED <<sequenceNumber, dvars, zdo>>

LiveExchNext ==
    \/ /\ micro = << >> /\ Started < MaxExch /\ LiveEvents < MaxLiveEvents
       /\ \E response \in {NoResponse, ResponseId}, timeout \in ExchTimeouts :
             SendZclFrameToEndpoint(FALSE, response, TRUE, timeout)
       /\ UNCHANGED <<sequenceNumber, dvars, zdo>>
    \/ RunMicrotask
    \/ LiveEvents < MaxLiveEvents /\ \E m \in LiveMessages : Receive(m)
       /\ UNCHANGED <<sequenceNumber, dvars, zdo>>
    \/ \E c \in ExchCalls : Deadline(c)
    \/ /\ micro = << >> /\ LiveEvents < MaxLiveEvents
       /\ \E c \in ExchCalls : WriteFail(c) /\ Wake(<< c >>)
       /\ UNCHANGED <<sequenceNumber, dvars, zdo>>
    \/ \E w \in Exchanges : WaiterDeadline(w)
    \/ LiveEvents < MaxLiveEvents /\ Stop /\ UNCHANGED <<sequenceNumber, dvars, zdo>>

LiveExchSpec ==
    /\ ExchInit
    /\ [][LiveExchNext]_vars
    /\ WF_vars(RunMicrotask)
    /\ \A c \in ExchCalls : WF_vars(Deadline(c))
    /\ \A w \in Exchanges : WF_vars(WaiterDeadline(w))

\* exchange x is between its call and its return
Running(x) == xch[x].pc \in { "ack", "conf", "ind" }

\* the call of exchange x has returned or thrown
Terminated(x) == xch[x].pc \in { "done", "failed" }

\* C31: every sendZclFrameToEndpoint call eventually returns or throws,
\* whatever lines arrive and in whatever order, and also when none arrives:
\* the ack phase, the confirm phase and the waiter each have a deadline.
C31_ExchangeTerminates == \A x \in Exchanges : Running(x) ~> Terminated(x)

\* an exchange that threw at the deadline of its ack, no line having arrived
C31_Witness ==
    \E x \in Exchanges :
        /\ xch[x].pc = "failed"
        /\ rx.n = 0
        /\ clears = 0
        /\ Outcome(xch[x].ackCall) = "timeout"

TypeOK ==
    /\ issued \in 0..MaxCmds
    /\ clears \in 0..MaxClears
    /\ timers \subseteq 1..issued
    /\ rx.n \in 0..MaxMsgs
    /\ \A i \in 1..Len(pending) : pending[i].c \in 1..issued
====
